---- MODULE Spec2Model ----
(***************************************************************************)
(* A model of supersidian: the task extractor, the synchronization ledger  *)
(* (storage.py), the todo providers, the retrying tool runner and the      *)
(* per-note / per-bridge / per-run control flow of supersidian.py.         *)
(*                                                                         *)
(* Text is modelled as sequences of one-character strings; the rendered    *)
(* Markdown body of a note is the sequence md_body.splitlines().           *)
(***************************************************************************)
EXTENDS Integers, Sequences, FiniteSets, TLC

(***************************************************************************)
(* Bounds of the model.                                                    *)
(***************************************************************************)
MaxEvents == 3    \* runs of main() started plus modifications of note files
MaxClock == 2     \* values of utcnow() in the ledger specification

NULL == "NULL"    \* Python's None in a nullable column or field

Max(S) == CHOOSE x \in S : \A y \in S : y <= x

Range(s) == {s[i] : i \in 1..Len(s)}

(***************************************************************************)
(* Characters and str.strip().                                             *)
(***************************************************************************)
Whitespace == {" ", "\t"}

LeadWs(s) ==
    CHOOSE k \in 0..Len(s) :
        /\ \A j \in 1..k : s[j] \in Whitespace
        /\ (k = Len(s) \/ s[k + 1] \notin Whitespace)

TrailWs(s) ==
    CHOOSE k \in 0..Len(s) :
        /\ \A j \in (Len(s) - k + 1)..Len(s) : s[j] \in Whitespace
        /\ (k = Len(s) \/ s[Len(s) - k] \notin Whitespace)

Strip(s) ==
    IF LeadWs(s) = Len(s) THEN <<>>
    ELSE SubSeq(s, LeadWs(s) + 1, Len(s) - TrailWs(s))

\* TASK_LINE_RX: optional leading whitespace, "-", one whitespace, "[", a mark
\* (space, x or X), "]", one or more whitespace, then the rest of the line.
\* The leading whitespace group is greedy and must be followed by "-", so it
\* takes the whole leading run; the whitespace after "]" is taken greedily
\* and group 3 is what remains of the line.
TASK_LINE_RX(line) ==
    LET i == LeadWs(line)
        head == /\ Len(line) >= i + 6
                /\ line[i + 1] = "-"
                /\ line[i + 2] \in Whitespace
                /\ line[i + 3] = "["
                /\ line[i + 4] \in {" ", "x", "X"}
                /\ line[i + 5] = "]"
                /\ line[i + 6] \in Whitespace
    IN  IF head
        THEN LET after == SubSeq(line, i + 6, Len(line))
             IN  [matched |-> TRUE,
                  indent  |-> SubSeq(line, 1, i),
                  mark    |-> line[i + 4],
                  title   |-> SubSeq(after, LeadWs(after) + 1, Len(after))]
        ELSE [matched |-> FALSE, indent |-> <<>>, mark |-> " ", title |-> <<>>]

(***************************************************************************)
(* Bridges of the configuration and the note files each one discovers.     *)
(***************************************************************************)
Bridges == <<"b1", "b2">>

BridgeNames == Range(Bridges)

NoteFiles(b) == IF b = "b1" THEN <<"n1", "n2">> ELSE <<>>

NoteKeys == UNION {{<<b, n>> : n \in Range(NoteFiles(b))} : b \in BridgeNames}

VaultName(b) == "V" \o b

RelMd(n) == n \o ".md"

\* A variant that leaves the line number out.
LocalIdOfNote(b, note_rel, idx) == b \o ":" \o note_rel

LocalId(b, note_rel, idx) == b \o ":" \o note_rel \o ":" \o ToString(idx)

(***************************************************************************)
(* extract_tasks_from_markdown: one LocalTask per checklist line with a    *)
(* non-empty stripped title, numbered by its 1-based line index.           *)
(***************************************************************************)
RECURSIVE ExtractFromLine(_, _, _, _)
ExtractFromLine(lines, b, note_rel, idx) ==
    IF idx > Len(lines) THEN <<>>
    ELSE LET m == TASK_LINE_RX(lines[idx])
             title == Strip(m.title)
             here == IF m.matched /\ title # <<>>
                     THEN <<[local_id    |-> LocalId(b, note_rel, idx),
                             bridge_name |-> b,
                             vault_name  |-> VaultName(b),
                             note_path   |-> note_rel,
                             line_no     |-> idx,
                             title       |-> title,
                             completed   |-> (m.mark \in {"x", "X"})]>>
                     ELSE <<>>
         IN  here \o ExtractFromLine(lines, b, note_rel, idx + 1)

extract_tasks_from_markdown(md_lines, b, note_rel) ==
    ExtractFromLine(md_lines, b, note_rel, 1)

(***************************************************************************)
(* storage.py: the tasks table as a function from local_id (the primary    *)
(* key) to its row.                                                        *)
(***************************************************************************)
EmptyLedger == [id \in {} |-> NULL]

\* A variant that answers with every id it was asked about.
get_known_all_candidates(table, local_ids) == Range(local_ids)

\* Whether the call reaches _get_connection() and cur.execute().
get_known_opens_store(local_ids) == local_ids # <<>>

\* A variant that takes every id asked about as known once one of them is.
get_known_whole_note(table, local_ids) ==
    IF \E i \in 1..Len(local_ids) : local_ids[i] \in DOMAIN table
    THEN Range(local_ids) ELSE {}

\* A variant that finds no row, whatever the table holds.
get_known_none(table, local_ids) == {}

\* A variant that does not count the rows of failed syncs as known.
get_known_not_failed(table, local_ids) ==
    {id \in DOMAIN table : /\ \E i \in 1..Len(local_ids) : local_ids[i] = id
                           /\ table[id].status # "failed"}

\* SELECT local_id FROM tasks WHERE local_id IN (...): the ids of the rows
\* whose key is one of the parameters; no query for an empty list.
get_known_task_ids(table, local_ids) ==
    IF local_ids = <<>> THEN {}
    ELSE {id \in DOMAIN table : \E i \in 1..Len(local_ids) : local_ids[i] = id}

\* result_by_id = {r.local_id: r for r in results}: a later result replaces
\* an earlier one with the same local_id.
HasResult(results, id) == \E j \in 1..Len(results) : results[j].local_id = id

result_by_id(results, id) ==
    results[Max({j \in 1..Len(results) : results[j].local_id = id})]

\* A variant that replaces the whole row (INSERT OR REPLACE).
InsertOrReplace(table, task, res, now_) ==
    [id \in DOMAIN table \cup {task.local_id} |->
        IF id = task.local_id
        THEN [local_id       |-> task.local_id,
              bridge_name    |-> task.bridge_name,
              vault_name     |-> task.vault_name,
              note_path      |-> task.note_path,
              line_no        |-> task.line_no,
              title          |-> task.title,
              provider       |-> res.provider,
              external_id    |-> res.external_id,
              status         |-> res.status,
              completed      |-> IF task.completed THEN 1 ELSE 0,
              created_at     |-> now_,
              last_synced_at |-> now_,
              last_error     |-> res.error]
        ELSE table[id]]

\* INSERT ... ON CONFLICT(local_id) DO UPDATE SET provider, external_id,
\* status, completed, last_synced_at, last_error.
Upsert(table, task, res, now_) ==
    LET completed_int == IF task.completed THEN 1 ELSE 0
    IN  IF task.local_id \in DOMAIN table
        THEN [table EXCEPT ![task.local_id] =
                 [@ EXCEPT !.provider       = res.provider,
                           !.external_id    = res.external_id,
                           !.status         = res.status,
                           !.completed      = completed_int,
                           !.last_synced_at = now_,
                           !.last_error     = res.error]]
        ELSE [id \in DOMAIN table \cup {task.local_id} |->
                 IF id = task.local_id
                 THEN [local_id       |-> task.local_id,
                       bridge_name    |-> task.bridge_name,
                       vault_name     |-> task.vault_name,
                       note_path      |-> task.note_path,
                       line_no        |-> task.line_no,
                       title          |-> task.title,
                       provider       |-> res.provider,
                       external_id    |-> res.external_id,
                       status         |-> res.status,
                       completed      |-> completed_int,
                       created_at     |-> now_,
                       last_synced_at |-> now_,
                       last_error     |-> res.error]
                 ELSE table[id]]

\* A variant that keeps no row for a failed sync.
record_successes_only(table, tasks, results, now_) ==
    LET ok == SelectSeq(results, LAMBDA r : r.status # "failed")
        RECURSIVE Loop(_, _)
        Loop(t, k) ==
            IF k > Len(tasks) THEN t
            ELSE IF ~HasResult(ok, tasks[k].local_id) THEN Loop(t, k + 1)
            ELSE Loop(Upsert(t, tasks[k], result_by_id(ok, tasks[k].local_id), now_),
                      k + 1)
    IN  Loop(table, 1)

\* A variant that also writes a row, without provider data, for a task that
\* has no result.
record_every_task(table, tasks, results, now_) ==
    LET none(t) == [local_id |-> t.local_id, provider |-> NULL,
                    external_id |-> NULL, status |-> "pending", error |-> NULL]
        RECURSIVE Loop(_, _)
        Loop(t, k) ==
            IF k > Len(tasks) THEN t
            ELSE Loop(Upsert(t, tasks[k],
                             IF HasResult(results, tasks[k].local_id)
                             THEN result_by_id(results, tasks[k].local_id)
                             ELSE none(tasks[k]), now_),
                      k + 1)
    IN  Loop(table, 1)

RECURSIVE RecordFrom(_, _, _, _, _)
RecordFrom(table, tasks, results, now_, k) ==
    IF k > Len(tasks) THEN table
    ELSE IF ~HasResult(results, tasks[k].local_id)
         THEN RecordFrom(table, tasks, results, now_, k + 1)
         ELSE RecordFrom(Upsert(table, tasks[k],
                                result_by_id(results, tasks[k].local_id), now_),
                         tasks, results, now_, k + 1)

record_task_sync_results(table, tasks, results, now_) ==
    RecordFrom(table, tasks, results, now_, 1)

(***************************************************************************)
(* todo/: the provider registry and the two providers.                     *)
(***************************************************************************)
NoopTodoProvider_sync_tasks(tasks) ==
    [i \in 1..Len(tasks) |->
        [local_id    |-> tasks[i].local_id,
         provider    |-> "noop",
         external_id |-> NULL,
         status      |-> "skipped",
         error       |-> "todo sync disabled or noop provider in use"]]

\* What one POST to the Todoist REST API can do: a reply with or without
\* an "id", urllib's HTTPError or URLError, any other exception.
HttpOutcomes == {"ok", "ok_no_id", "HTTPError", "URLError", "Exception"}

\* The outcomes the run specification draws from.
RunHttpOutcomes == {"ok", "HTTPError"}

TodoistResult(task, http) ==
    [local_id    |-> task.local_id,
     provider    |-> "todoist",
     external_id |-> IF http = "ok" THEN "tid" ELSE NULL,
     status      |-> IF http \in {"ok", "ok_no_id"} THEN "created" ELSE "failed",
     error       |-> IF http \in {"ok", "ok_no_id"} THEN NULL ELSE http]

\* http[i] is the outcome of the request made for tasks[i].
TodoistProvider_sync_tasks(tasks, token, http) ==
    IF tasks = <<>> THEN <<>>
    ELSE IF ~token
    THEN [i \in 1..Len(tasks) |->
             [local_id    |-> tasks[i].local_id,
              provider    |-> "todoist",
              external_id |-> NULL,
              status      |-> "failed",
              error       |-> "SUPERSIDIAN_TODOIST_API_TOKEN is not set"]]
    ELSE [i \in 1..Len(tasks) |-> TodoistResult(tasks[i], http[i])]

\* get_provider(name) with name = SUPERSIDIAN_TODO_PROVIDER, stripped, or
\* None when empty: the registered provider, the noop provider otherwise.
TodoEnvValues == {"", "noop", "todoist", "things"}

get_provider(name) ==
    IF name = "" THEN "noop"
    ELSE IF name \in {"noop", "todoist"} THEN name
    ELSE "noop"

sync_tasks(provider, tasks, token, http) ==
    IF provider = "todoist"
    THEN TodoistProvider_sync_tasks(tasks, token, http)
    ELSE NoopTodoProvider_sync_tasks(tasks)

(***************************************************************************)
(* The rendered Markdown bodies a note can have (the output of             *)
(* unwrap_and_markdown for the note's current content).                    *)
(***************************************************************************)
LOpenA == <<"-", " ", "[", " ", "]", " ", "a">>
LOpenB == <<"-", " ", "[", " ", "]", " ", "b">>
LDoneA == <<"-", " ", "[", "x", "]", " ", "a">>
LDoneB == <<" ", " ", "-", " ", "[", "X", "]", " ", "b">>
LPlain == <<"a">>
LEmpty == <<"-", " ", "[", " ", "]">>

TextPool == {<<LOpenA>>, <<LDoneA, LOpenA>>, <<LOpenA, LDoneB>>,
             <<LOpenB, LOpenA>>, <<LEmpty, LPlain>>}

(***************************************************************************)
(* State.                                                                  *)
(***************************************************************************)
VARIABLES
    \* the environment: configuration, files, the persistent store
    todoEnv,      \* SUPERSIDIAN_TODO_PROVIDER
    todoToken,    \* whether SUPERSIDIAN_TODOIST_API_TOKEN is set
    noteText,     \* per note file: the Markdown body its content renders to
    mdFresh,      \* per note file: the .md exists and is not older than the note
    tooRecent,    \* per note file: its age is below the minimum file age
    ledger,       \* the tasks table
    now,          \* datetime.utcnow()
    \* one process running main()
    pc,           \* "idle" (no process), "bridge", "note", "sync", "record",
                  \* "write", "bridge_end", "finish"
    connOpen,     \* storage._CONN is set
    bridgeIdx,    \* position of main's loop over cfg.bridges
    noteIdx,      \* position of process_bridge's loop over note_files
    counters,     \* converted, skipped, no_text, tool_missing, tool_failed
    errorish,     \* main's errorish flag
    batch,        \* new_open_tasks of the note being processed
    results,      \* what provider.sync_tasks returned for batch
    \* history
    events,       \* runs started plus note modifications made
    runOutcome,   \* how the last run ended: "none", "running", "completed",
                  \* "aborted" (exception out of main), "crashed"
    noteStatus,   \* per note file: what process_note_for_bridge returned in this run
    calls,        \* the external calls made by the last step
    sent,         \* per local_id passed to provider.sync_tasks: "once" or "again"
    passes,       \* per note file: completed passes of the sync block on its current text
    ledgerFault,  \* the ledger operation that failed in this run, or "none"
    \* the storage functions called on their own
    ledgerCall,   \* the last call: its arguments, return value and effect
    rowHist,      \* per local_id: what the calls so far carried for it
    \* one call of extract_text
    toolArgs,     \* the note path among the tool's arguments
    toolPc,       \* "idle", "exec" (about to run the tool), "done"
    attempt,      \* run_supernote_tool's loop variable
    execLog,      \* the outcome of each execution of the tool, in order
    slept,        \* the argument of each time.sleep, in order
    toolOut,      \* how run_supernote_tool and extract_text ended
    \* one call of a todo provider
    syncCall,     \* its arguments and how provider.sync_tasks ended
    \* the auxiliary deliveries
    notifyCall,   \* one call of send_notifications: arguments, loop position, sends
    pingCall,     \* one call of ping_healthcheck: configuration, request, outcome
    \* two processes running main() at the same time
    runs,         \* per process: its position in process_note_for_bridge, its
                  \* new_open_tasks and the provider's results
    providerLog,  \* the calls of provider.sync_tasks made: process and local_ids
    \* one call of unwrap_and_markdown
    reflowCall,   \* its argument and what it returned
    \* one call of the note provider registry
    resolveCall,  \* get_provider or provider_from_env: its input and the provider returned
    \* one call of extract_tasks_from_markdown
    extractCall,  \* its arguments and the tasks returned
    mainRun       \* one run of main() seen from its loop over the bridges

envVars == <<todoEnv, todoToken, noteText, mdFresh, tooRecent>>
procVars == <<pc, connOpen, bridgeIdx, noteIdx, counters, errorish, batch, results>>
histVars == <<events, runOutcome, noteStatus, calls, sent, passes, ledgerFault>>
ledgerVars == <<ledgerCall, rowHist>>
toolVars == <<toolArgs, toolPc, attempt, execLog, slept, toolOut>>
pureVars == <<syncCall, notifyCall, pingCall>>
raceVars == <<runs, providerLog>>
callVars == <<reflowCall, resolveCall, extractCall, mainRun>>
unitVars == <<ledgerVars, toolVars, pureVars, raceVars, callVars>>
runVars == <<envVars, ledger, now, procVars, histVars>>
vars == <<runVars, unitVars>>

ZeroCounters ==
    [converted |-> 0, skipped |-> 0, no_text |-> 0, tool_missing |-> 0, tool_failed |-> 0]

NoStatus == [k \in NoteKeys |-> "none"]

\* No process is running.
InitProc ==
    /\ pc = "idle"
    /\ connOpen = FALSE
    /\ bridgeIdx = 0
    /\ noteIdx = 0
    /\ counters = ZeroCounters
    /\ errorish = FALSE
    /\ batch = <<>>
    /\ results = <<>>

InitHist ==
    /\ events = 0
    /\ runOutcome = "none"
    /\ noteStatus = NoStatus
    /\ calls = {}
    /\ sent = [id \in {} |-> "once"]
    /\ passes = [k \in NoteKeys |-> "none"]
    /\ ledgerFault = "none"

\* A first installation: no .md written yet, an empty tasks table.  The todo
\* provider is an unregistered name (resolved to the noop provider) or
\* Todoist, with or without its token.
InitEnv ==
    /\ todoEnv \in {"things", "todoist"}
    /\ todoToken \in BOOLEAN
    /\ (todoEnv # "todoist" => todoToken)
    /\ noteText \in [NoteKeys -> TextPool]
    /\ noteText[<<"b1", "n2">>] = <<LOpenB, LOpenA>>
    /\ mdFresh = [k \in NoteKeys |-> FALSE]
    /\ tooRecent = [k \in NoteKeys |-> FALSE]
    /\ ledger = EmptyLedger
    /\ now = 0

\* No storage function has been called on its own.
NoCall ==
    [op |-> "none", local_ids |-> <<>>, returned |-> {}, task_ids |-> {},
     result_ids |-> {}, changed |-> {}, queried |-> FALSE, conn_was |-> FALSE]

InitLedgerVars ==
    /\ ledgerCall = NoCall
    /\ rowHist = [id \in {} |-> NULL]

InitToolVars ==
    /\ toolArgs = <<>>
    /\ toolPc = "idle"
    /\ attempt = 0
    /\ execLog = <<>>
    /\ slept = <<>>
    /\ toolOut = [run |-> "none", extract |-> "none"]

\* No provider has been called on its own.
NoSync ==
    [provider |-> "none", tasks |-> <<>>, token |-> FALSE, url_valid |-> FALSE,
     http |-> <<>>, outcome |-> "none", results |-> <<>>]

\* send_notifications has not been called.
NoNotify ==
    [providers |-> <<>>, behaviours |-> <<>>, always_send |-> FALSE, idx |-> 0,
     sends |-> <<>>, outcome |-> "none"]

\* ping_healthcheck has not been called.
NoPing ==
    [configured |-> FALSE, suffix |-> "", request |-> "none", outcome |-> "none"]

InitPureVars ==
    /\ syncCall = NoSync
    /\ notifyCall = NoNotify
    /\ pingCall = NoPing

RunIds == {"r1", "r2"}

NotRunning == [pc |-> "idle", batch |-> <<>>, results |-> <<>>]

InitRaceVars ==
    /\ runs = [p \in RunIds |-> NotRunning]
    /\ providerLog = <<>>

NoReflow == [called |-> FALSE, input |-> <<>>, text |-> <<>>, aggressive |-> FALSE,
             returned |-> <<>>]

NoExtract == [called |-> FALSE, md_body |-> <<>>, bridge |-> "", rel_md_path |-> "",
              tasks |-> <<>>]

NoStats ==
    [notes_found |-> 0, converted |-> 0, skipped |-> 0, no_text |-> 0,
     tool_missing |-> 0, tool_failed |-> 0]

NoBridgeCall ==
    [branch |-> "none", statuses |-> <<>>, stats |-> NoStats, status_note |-> FALSE,
     notified |-> FALSE, always_send |-> FALSE, sends |-> <<>>, returned |-> "none"]

NoMain ==
    [pc |-> "idle", mode |-> "errors", providers |-> <<>>, bridges |-> 0, idx |-> 0,
     errorish |-> FALSE, pings |-> <<>>, returns |-> <<>>, last |-> NoBridgeCall]

NoResolve == [op |-> "none", base |-> <<>>, name |-> [some |-> FALSE, value |-> <<>>],
              returned |-> "none"]

Init ==
    /\ InitEnv /\ InitProc /\ InitHist /\ InitLedgerVars /\ InitToolVars /\ InitPureVars
    /\ InitRaceVars
    /\ reflowCall = NoReflow
    /\ resolveCall = NoResolve
    /\ extractCall = NoExtract
    /\ mainRun = NoMain

CurrentBridge == Bridges[bridgeIdx]

CurrentNote == <<CurrentBridge, NoteFiles(CurrentBridge)[noteIdx]>>

(***************************************************************************)
(* process_note_for_bridge returning `status` to process_bridge's loop,    *)
(* which counts it and moves to the next note file.                        *)
(***************************************************************************)
\* A variant that counts a too-recent note among the skipped ones.
CountRecentAsSkipped(c, status) ==
    IF status = "converted" THEN [c EXCEPT !.converted = @ + 1]
    ELSE IF status \in {"skipped_up_to_date", "skipped_too_recent"}
    THEN [c EXCEPT !.skipped = @ + 1]
    ELSE IF status = "no_text" THEN [c EXCEPT !.no_text = @ + 1]
    ELSE IF status = "tool_missing" THEN [c EXCEPT !.tool_missing = @ + 1]
    ELSE IF status = "tool_failed" THEN [c EXCEPT !.tool_failed = @ + 1]
    ELSE c

\* The if/elif chain of process_bridge's loop over note_files.
CountStatus(c, status) ==
    IF status = "converted" THEN [c EXCEPT !.converted = @ + 1]
    ELSE IF status = "skipped_up_to_date" THEN [c EXCEPT !.skipped = @ + 1]
    ELSE IF status = "skipped_too_recent" THEN c
    ELSE IF status = "no_text" THEN [c EXCEPT !.no_text = @ + 1]
    ELSE IF status = "tool_missing" THEN [c EXCEPT !.tool_missing = @ + 1]
    ELSE IF status = "tool_failed" THEN [c EXCEPT !.tool_failed = @ + 1]
    ELSE c

NoteReturns(status) ==
    /\ noteStatus' = [noteStatus EXCEPT ![CurrentNote] = status]
    /\ counters' = CountStatus(counters, status)
    /\ batch' = <<>>
    /\ results' = <<>>
    /\ noteIdx' = noteIdx + 1
    /\ pc' = IF noteIdx + 1 > Len(NoteFiles(CurrentBridge)) THEN "bridge_end" ELSE "note"

\* The process is gone: an exception left main(), main() returned, or the
\* process was killed.
ProcessEnds(outcome) ==
    /\ pc' = "idle"
    /\ runOutcome' = outcome
    /\ connOpen' = FALSE
    /\ bridgeIdx' = 0
    /\ noteIdx' = 0
    /\ counters' = ZeroCounters
    /\ errorish' = FALSE
    /\ batch' = <<>>
    /\ results' = <<>>
    /\ noteStatus' = NoStatus

\* A variant in which main() swallows the exception and ends normally.
SwallowedByMain(call) ==
    /\ ProcessEnds("completed")
    /\ calls' = {call, "ping_ok"}

\* An exception raised inside process_note_for_bridge: neither it nor
\* process_bridge catches it; main() sets errorish, pings "/fail" in its
\* finally clause and re-raises.
RaisedToMain(call) ==
    /\ ProcessEnds("aborted")
    /\ calls' = {call, "ping_fail"}

\* A variant that reports every extraction error as a missing tool.
ExtractionStatusAllMissing(kind) ==
    IF kind \in {"tool_missing", "tool_failed"} THEN "tool_missing" ELSE "extract_error"

\* How process_note_for_bridge maps ExtractionError.kind to its status.
ExtractionStatus(kind) ==
    IF kind = "tool_missing" THEN "tool_missing"
    ELSE IF kind = "tool_failed" THEN "tool_failed"
    ELSE "extract_error"

\* A variant without the filter on completed.
new_tasks_open_or_not(tasks, known_ids) ==
    SelectSeq(tasks, LAMBDA t : t.local_id \notin known_ids)

\* new_tasks = the tasks whose id is not known; new_open_tasks = those of
\* them that are not completed.
new_open_tasks(tasks, known_ids) ==
    SelectSeq(SelectSeq(tasks, LAMBDA t : t.local_id \notin known_ids),
              LAMBDA t : ~t.completed)

TaskIds(tasks) == {tasks[i].local_id : i \in 1..Len(tasks)}

NoteTasks(k) == extract_tasks_from_markdown(noteText[k], k[1], RelMd(k[2]))

\* sent[id] is "once" or "again" (more than once) for an id passed to the provider.
CountSent(count, tasks) ==
    [id \in DOMAIN count \cup TaskIds(tasks) |->
        IF id \notin TaskIds(tasks) THEN count[id]
        ELSE IF id \notin DOMAIN count
                /\ Cardinality({i \in 1..Len(tasks) : tasks[i].local_id = id}) = 1
        THEN "once" ELSE "again"]

\* passes[k] is "none", "once" or "again" (more than once).
CountPass(p, k) == [p EXCEPT ![k] = IF @ = "none" THEN "once" ELSE "again"]

(***************************************************************************)
(* main(): start of a run.                                                 *)
(***************************************************************************)
main_start ==
    /\ pc = "idle"
    /\ events < MaxEvents
    /\ events' = events + 1
    /\ now' = now + 1
    /\ pc' = "bridge"
    /\ bridgeIdx' = 1
    /\ runOutcome' = "running"
    /\ ledgerFault' = "none"
    /\ calls' = {"ping_start"}
    /\ UNCHANGED <<unitVars, envVars, ledger, connOpen, noteIdx, counters, errorish,
                   batch, results, noteStatus, sent, passes>>

AfterBridge == IF bridgeIdx + 1 > Len(Bridges) THEN "finish" ELSE "bridge"

\* process_bridge for a bridge without .note files: status note, return False.
process_bridge_no_notes ==
    /\ pc = "bridge"
    /\ NoteFiles(CurrentBridge) = <<>>
    /\ bridgeIdx' = bridgeIdx + 1
    /\ pc' = AfterBridge
    /\ calls' = {"list_notes", "write_status_note"}
    /\ UNCHANGED <<unitVars, envVars, ledger, now, connOpen, noteIdx, counters, errorish,
                   batch, results, runOutcome, noteStatus, sent, passes,
                   ledgerFault, events>>

process_bridge_begin ==
    /\ pc = "bridge"
    /\ NoteFiles(CurrentBridge) # <<>>
    /\ noteIdx' = 1
    /\ counters' = ZeroCounters
    /\ pc' = "note"
    /\ calls' = {"list_notes"}
    /\ UNCHANGED <<unitVars, envVars, ledger, now, connOpen, bridgeIdx, errorish, batch,
                   results, runOutcome, noteStatus, sent, passes, ledgerFault,
                   events>>

(***************************************************************************)
(* process_note_for_bridge, up to the provider call.                       *)
(***************************************************************************)
\* A variant without the check of the file's age.
skip_status_by_mtime(too_recent, up_to_date) ==
    IF up_to_date THEN "skipped_up_to_date" ELSE NULL

\* The two early returns of process_note_for_bridge: the note file is
\* younger than the minimum age; the Markdown file is not older than the
\* note file.  NULL: the note is processed.
skip_status(too_recent, up_to_date) ==
    IF too_recent THEN "skipped_too_recent"
    ELSE IF up_to_date THEN "skipped_up_to_date"
    ELSE NULL

SkipStatusOf(k) == skip_status(tooRecent[k], mdFresh[k])

process_note_skipped ==
    /\ pc = "note"
    /\ SkipStatusOf(CurrentNote) # NULL
    /\ NoteReturns(SkipStatusOf(CurrentNote))
    /\ calls' = {}
    /\ UNCHANGED <<unitVars, envVars, ledger, now, connOpen, bridgeIdx, errorish,
                   runOutcome, sent, passes, ledgerFault, events>>

\* extract_text raises ExtractionError(kind).
process_note_tool_error ==
    /\ pc = "note"
    /\ SkipStatusOf(CurrentNote) = NULL
    /\ \E kind \in {"tool_missing", "tool_failed"} :
          /\ NoteReturns(ExtractionStatus(kind))
          /\ calls' = {"extract_text", kind}
    /\ UNCHANGED <<unitVars, envVars, ledger, now, connOpen, bridgeIdx, errorish,
                   runOutcome, sent, passes, ledgerFault, events>>

\* extract_text returns None: the tool produced only whitespace.
process_note_no_text ==
    /\ pc = "note"
    /\ SkipStatusOf(CurrentNote) = NULL
    /\ NoteReturns("no_text")
    /\ calls' = {"extract_text"}
    /\ UNCHANGED <<unitVars, envVars, ledger, now, connOpen, bridgeIdx, errorish,
                   runOutcome, sent, passes, ledgerFault, events>>

\* Text extracted and reflowed, tasks extracted, known ids looked up.
process_note_lookup ==
    /\ pc = "note"
    /\ SkipStatusOf(CurrentNote) = NULL
    /\ LET tasks == NoteTasks(CurrentNote)
           task_ids == [i \in 1..Len(tasks) |-> tasks[i].local_id]
           known_ids == get_known_task_ids(ledger, task_ids)
           open == IF tasks = <<>> THEN <<>> ELSE new_open_tasks(tasks, known_ids)
       IN  /\ batch' = open
           /\ connOpen' = (connOpen \/ (tasks # <<>> /\ get_known_opens_store(task_ids)))
           /\ calls' = {"extract_text"} \cup
                       (IF tasks = <<>> THEN {} ELSE {"get_known_task_ids"})
           /\ pc' = IF open # <<>> THEN "sync" ELSE "write"
           /\ passes' = IF open # <<>> THEN passes ELSE CountPass(passes, CurrentNote)
    /\ UNCHANGED <<unitVars, envVars, ledger, now, bridgeIdx, noteIdx, counters,
                   errorish, results, runOutcome, noteStatus, sent,
                   ledgerFault, events>>

\* get_known_task_ids raises (sqlite3.Error).
process_note_lookup_fails ==
    /\ pc = "note"
    /\ SkipStatusOf(CurrentNote) = NULL
    /\ NoteTasks(CurrentNote) # <<>>
    /\ RaisedToMain("get_known_task_ids")
    /\ ledgerFault' = "read"
    /\ UNCHANGED <<unitVars, envVars, ledger, now, sent, passes, events>>

(***************************************************************************)
(* process_note_for_bridge: provider call, ledger write, note write.       *)
(***************************************************************************)
process_note_sync ==
    /\ pc = "sync"
    /\ \E http \in [1..Len(batch) -> RunHttpOutcomes] :
          results' = sync_tasks(get_provider(todoEnv), batch, todoToken, http)
    /\ sent' = CountSent(sent, batch)
    /\ calls' = {"sync_tasks"}
    /\ pc' = "record"
    /\ UNCHANGED <<unitVars, envVars, ledger, now, connOpen, bridgeIdx, noteIdx,
                   counters, errorish, batch, runOutcome, noteStatus, passes,
                   ledgerFault, events>>

process_note_record ==
    /\ pc = "record"
    /\ ledger' = record_task_sync_results(ledger, batch, results, now)
    /\ connOpen' = TRUE
    /\ passes' = CountPass(passes, CurrentNote)
    /\ calls' = {"record_task_sync_results"}
    /\ pc' = "write"
    /\ UNCHANGED <<unitVars, envVars, now, bridgeIdx, noteIdx, counters, errorish, batch,
                   results, runOutcome, noteStatus, sent, ledgerFault, events>>

\* record_task_sync_results raises (sqlite3.Error) before its commit.
process_note_record_fails ==
    /\ pc = "record"
    /\ RaisedToMain("record_task_sync_results")
    /\ ledgerFault' = "write"
    /\ UNCHANGED <<unitVars, envVars, ledger, now, sent, passes, events>>

\* note_provider.write_note, return "converted".
process_note_write ==
    /\ pc = "write"
    /\ mdFresh' = [mdFresh EXCEPT ![CurrentNote] = TRUE]
    /\ NoteReturns("converted")
    /\ calls' = {"write_note"}
    /\ UNCHANGED <<unitVars, todoEnv, todoToken, noteText, tooRecent, ledger, now,
                   connOpen, bridgeIdx, errorish, runOutcome, sent, passes,
                   ledgerFault, events>>

(***************************************************************************)
(* process_bridge after its loop, and the end of main().                   *)
(***************************************************************************)
process_bridge_end ==
    /\ pc = "bridge_end"
    /\ errorish' = (errorish \/ counters.tool_missing > 0 \/ counters.tool_failed > 0)
    /\ bridgeIdx' = bridgeIdx + 1
    /\ pc' = AfterBridge
    /\ calls' = {"write_status_note", "send_notifications"}
    /\ UNCHANGED <<unitVars, envVars, ledger, now, connOpen, noteIdx, counters, batch,
                   results, runOutcome, noteStatus, sent, passes, ledgerFault,
                   events>>

main_finish ==
    /\ pc = "finish"
    /\ ProcessEnds("completed")
    /\ calls' = {IF errorish THEN "ping_fail" ELSE "ping_ok"}
    /\ UNCHANGED <<unitVars, envVars, ledger, now, sent, passes, ledgerFault, events>>

\* The process is killed, or the machine stops, at any point of a run.
Crash ==
    /\ pc # "idle"
    /\ ProcessEnds("crashed")
    /\ calls' = {}
    /\ UNCHANGED <<unitVars, envVars, ledger, now, sent, passes, ledgerFault, events>>

(***************************************************************************)
(* The environment between runs: note files are rewritten by the device    *)
(* or the sync client, and grow older.                                     *)
(***************************************************************************)
\* The note files that are rewritten in the behaviours explored; the others
\* keep the content they start with.
EditedNotes == {<<"b1", "n1">>}

EditNote ==
    /\ pc = "idle"
    /\ events < MaxEvents
    /\ \E k \in EditedNotes, t \in TextPool :
          /\ t # noteText[k]
          /\ noteText' = [noteText EXCEPT ![k] = t]
          /\ mdFresh' = [mdFresh EXCEPT ![k] = FALSE]
          /\ tooRecent' = [tooRecent EXCEPT ![k] = TRUE]
          /\ passes' = [passes EXCEPT ![k] = "none"]
    /\ events' = events + 1
    /\ calls' = {}
    /\ UNCHANGED <<unitVars, todoEnv, todoToken, ledger, now, procVars, runOutcome,
                   noteStatus, sent, ledgerFault>>

\* The file is written again with the same content (its mtime changes).
TouchNote ==
    /\ pc = "idle"
    /\ events < MaxEvents
    /\ \E k \in EditedNotes :
          /\ mdFresh' = [mdFresh EXCEPT ![k] = FALSE]
          /\ tooRecent' = [tooRecent EXCEPT ![k] = TRUE]
    /\ events' = events + 1
    /\ calls' = {}
    /\ UNCHANGED <<unitVars, todoEnv, todoToken, noteText, ledger, now, procVars,
                   runOutcome, noteStatus, sent, passes, ledgerFault>>

AgeNote ==
    /\ pc = "idle"
    /\ \E k \in NoteKeys :
          /\ tooRecent[k]
          /\ tooRecent' = [tooRecent EXCEPT ![k] = FALSE]
    /\ calls' = {}
    /\ UNCHANGED <<unitVars, todoEnv, todoToken, noteText, mdFresh, ledger, now,
                   procVars, runOutcome, noteStatus, sent, passes, ledgerFault,
                   events>>

Next ==
    \/ main_start
    \/ process_bridge_no_notes
    \/ process_bridge_begin
    \/ process_note_skipped
    \/ process_note_tool_error
    \/ process_note_no_text
    \/ process_note_lookup
    \/ process_note_lookup_fails
    \/ process_note_sync
    \/ process_note_record
    \/ process_note_record_fails
    \/ process_note_write
    \/ process_bridge_end
    \/ main_finish
    \/ Crash
    \/ EditNote
    \/ TouchNote
    \/ AgeNote

Spec == Init /\ [][Next]_vars

\* The runs in which no ledger operation raises: a run ends by returning
\* from main() or by being killed.
NextNoFault ==
    \/ main_start
    \/ process_bridge_no_notes
    \/ process_bridge_begin
    \/ process_note_skipped
    \/ process_note_tool_error
    \/ process_note_no_text
    \/ process_note_lookup
    \/ process_note_sync
    \/ process_note_record
    \/ process_note_write
    \/ process_bridge_end
    \/ main_finish
    \/ Crash
    \/ EditNote
    \/ TouchNote
    \/ AgeNote

SpecNoFault == Init /\ [][NextNoFault]_vars

(***************************************************************************)
(* storage.py on its own: get_known_task_ids and record_task_sync_results  *)
(* called with any arguments, in any order, by a sequence of processes.    *)
(***************************************************************************)
\* The task lists passed: what the extractor yields for three contents of
\* one note (one open task; a completed and an open task; no task).
LedgerTaskLists ==
    {extract_tasks_from_markdown(t, "b1", RelMd("n1")) :
        t \in {<<LOpenA>>, <<LDoneA, LOpenA>>, <<LEmpty, LPlain>>}}

\* The result lists passed: what the Todoist provider returns for one of
\* these task lists, not necessarily the one passed with it.
LedgerResultLists ==
    UNION {{TodoistProvider_sync_tasks(tl, TRUE, http) :
               http \in [1..Len(tl) -> RunHttpOutcomes]} : tl \in LedgerTaskLists}

\* The id lists asked for: the ids of one of the task lists, or the id of a
\* task of a note never synced.
LedgerIdLists ==
    {[i \in 1..Len(tl) |-> tl[i].local_id] : tl \in LedgerTaskLists}
    \cup {<<LocalId("b1", RelMd("n2"), 1)>>}

ResultIds(res) == {res[j].local_id : j \in 1..Len(res)}

\* The keys whose row differs between two contents of the table.
Changed(old, new) ==
    {id \in DOMAIN old \cup DOMAIN new :
        \/ id \notin DOMAIN old
        \/ id \notin DOMAIN new
        \/ old[id] # new[id]}

LastWith(s, id) == s[Max({i \in 1..Len(s) : s[i].local_id = id})]

\* What the calls so far carried for each local_id: the time of the first
\* call with a task and a result for it, and the values of the latest one.
Carried(hist, tasks, res, now_) ==
    LET both == TaskIds(tasks) \cap ResultIds(res)
    IN  [id \in DOMAIN hist \cup both |->
            IF id \notin both THEN hist[id]
            ELSE [first     |-> IF id \in DOMAIN hist THEN hist[id].first ELSE now_,
                  latest    |-> now_,
                  result    |-> LastWith(res, id),
                  completed |-> LastWith(tasks, id).completed]]

ledger_get_known ==
    /\ ledger' = ledger
    /\ \E local_ids \in LedgerIdLists :
          /\ ledgerCall' = [op         |-> "get_known_task_ids",
                            local_ids  |-> local_ids,
                            returned   |-> get_known_task_ids(ledger, local_ids),
                            task_ids   |-> {},
                            result_ids |-> {},
                            changed    |-> Changed(ledger, ledger'),
                            queried    |-> get_known_opens_store(local_ids),
                            conn_was   |-> connOpen]
          /\ connOpen' = (connOpen \/ get_known_opens_store(local_ids))
          /\ calls' = IF get_known_opens_store(local_ids)
                      THEN {"_get_connection", "execute"} ELSE {}
    /\ UNCHANGED <<envVars, now, pc, bridgeIdx, noteIdx, counters,
                   errorish, batch, results, events, runOutcome, noteStatus,
                   sent, passes, ledgerFault, rowHist, toolVars, pureVars, raceVars, callVars>>

ledger_record ==
    /\ \E tasks \in LedgerTaskLists, res \in LedgerResultLists :
          /\ ledger' = record_task_sync_results(ledger, tasks, res, now)
          /\ rowHist' = Carried(rowHist, tasks, res, now)
          /\ ledgerCall' = [op         |-> "record_task_sync_results",
                            local_ids  |-> <<>>,
                            returned   |-> {},
                            task_ids   |-> TaskIds(tasks),
                            result_ids |-> ResultIds(res),
                            changed    |-> Changed(ledger, ledger'),
                            queried    |-> TRUE,
                            conn_was   |-> connOpen]
    /\ connOpen' = TRUE
    /\ calls' = {"_get_connection", "execute", "commit"}
    /\ UNCHANGED <<envVars, now, pc, bridgeIdx, noteIdx, counters, errorish,
                   batch, results, events, runOutcome, noteStatus, sent, passes,
                   ledgerFault, toolVars, pureVars, raceVars, callVars>>

\* Time passes between two calls.
ledger_tick ==
    /\ now < MaxClock
    /\ now' = now + 1
    /\ calls' = {}
    /\ UNCHANGED <<envVars, ledger, procVars, events, runOutcome, noteStatus,
                   sent, passes, ledgerFault, unitVars>>

\* The process ends and another one starts: storage._CONN is None again.
ledger_restart ==
    /\ connOpen
    /\ connOpen' = FALSE
    /\ ledgerCall' = NoCall
    /\ calls' = {}
    /\ UNCHANGED <<envVars, ledger, now, pc, bridgeIdx, noteIdx, counters,
                   errorish, batch, results, events, runOutcome, noteStatus,
                   sent, passes, ledgerFault, rowHist, toolVars, pureVars, raceVars, callVars>>

InitUnit ==
    /\ Init
    /\ todoEnv = "todoist"
    /\ todoToken
    /\ noteText = [k \in NoteKeys |-> <<LOpenB, LOpenA>>]

NextLedger ==
    \/ ledger_get_known
    \/ ledger_record
    \/ ledger_tick
    \/ ledger_restart

SpecLedger == InitUnit /\ [][NextLedger]_vars

(***************************************************************************)
(* Properties of the run specification.                                    *)
(***************************************************************************)
HasOpenTask(k) == \E i \in 1..Len(NoteTasks(k)) : ~NoteTasks(k)[i].completed

HasCompletedTask(k) == \E i \in 1..Len(NoteTasks(k)) : NoteTasks(k)[i].completed

\* C1: once the sync block (known-id filter, provider sync, record) has
\* completed on a note's current text, whatever the provider answered, no
\* later pass over the same unchanged text reaches a provider call.
C1_Idempotent ==
    pc \in {"sync", "record"} => passes[CurrentNote] = "none"

\* A second pass over a note with an open task has gone through the ledger
\* lookup and on to the note write without a provider call.
C1_Witness ==
    /\ pc = "write"
    /\ "get_known_task_ids" \in calls
    /\ passes[CurrentNote] = "again"
    /\ HasOpenTask(CurrentNote)
    /\ TaskIds(NoteTasks(CurrentNote)) \cap DOMAIN sent # {}

\* C2: over runs that may crash anywhere and be restarted, no local_id is
\* passed to the task provider more than once.
C2_AtMostOnce ==
    \A id \in DOMAIN sent : sent[id] = "once"

\* C3: no task with completed = true is in a batch passed to sync_tasks.
C3_CompletedExcluded ==
    pc \in {"sync", "record"} => \A i \in 1..Len(batch) : ~batch[i].completed

\* The provider has been called for a note that also has a completed item.
C3_Witness ==
    /\ pc = "record"
    /\ "sync_tasks" \in calls
    /\ batch # <<>>
    /\ HasCompletedTask(CurrentNote)

\* C4: after process_note_for_bridge has converted a note, the ledger holds
\* a row for every completed task of its text.
C4_CompletedRecorded ==
    \A k \in NoteKeys :
        noteStatus[k] = "converted" =>
            \A i \in 1..Len(NoteTasks(k)) :
                NoteTasks(k)[i].completed => NoteTasks(k)[i].local_id \in DOMAIN ledger

\* C8: a failing ledger read or write does not abort the run.
C8_LedgerFaultIsolated ==
    ledgerFault # "none" => runOutcome # "aborted"

\* C9: when extract_text fails with tool_missing / tool_failed for a note,
\* process_note_for_bridge returns that status with no ledger, provider or
\* note-writer call, exactly the matching counter goes up by one, and the
\* loop goes on to the next note; at the end of the loop every note of the
\* bridge has a status.
C9_ToolFailureStep ==
    (pc = "note" /\ calls' \cap {"tool_missing", "tool_failed"} # {}) =>
        LET kind == CHOOSE c \in calls' \cap {"tool_missing", "tool_failed"} : TRUE
        IN  /\ calls' = {"extract_text", kind}
            /\ noteStatus' = [noteStatus EXCEPT ![CurrentNote] = kind]
            /\ counters' = [counters EXCEPT ![kind] = @ + 1]
            /\ ledger' = ledger
            /\ connOpen' = connOpen
            /\ sent' = sent
            /\ mdFresh' = mdFresh
            /\ runOutcome' = "running"
            /\ noteIdx' = noteIdx + 1
            /\ pc' = IF noteIdx < Len(NoteFiles(CurrentBridge)) THEN "note"
                     ELSE "bridge_end"

C9_ToolFailurePerNote ==
    /\ [][C9_ToolFailureStep]_vars
    /\ [](pc = "bridge_end" =>
            \A i \in 1..Len(NoteFiles(CurrentBridge)) :
                noteStatus[<<CurrentBridge, NoteFiles(CurrentBridge)[i]>>] # "none")

\* The tool failed for the first note and the second one was converted.
C9_Witness ==
    /\ pc = "bridge_end"
    /\ noteStatus[<<"b1", "n1">>] \in {"tool_missing", "tool_failed"}
    /\ noteStatus[<<"b1", "n2">>] = "converted"
    /\ counters.converted = 1

(***************************************************************************)
(* extract_text and run_supernote_tool on their own: one call after        *)
(* another, each execution of the tool ending in any of its outcomes.      *)
(*                                                                         *)
(* A message is a sequence of pieces; the pieces are chosen so that a      *)
(* signature is a substring of the message iff it is one of its pieces.    *)
(***************************************************************************)
Retries == 4          \* run_supernote_tool's default for retries

InitialDelay == 1     \* run_supernote_tool's default for initial_delay

SigDeadlock == "Resource deadlock avoided"

SigErrno == "[Errno 11]"

Contains(msg, sig) == \E i \in 1..Len(msg) : msg[i] = sig

\* str(e) of a CalledProcessError: the command, with the note path, and the
\* exit status.
StrOfError(args) == <<"Command '">> \o args \o <<"' returned non-zero exit status 1.">>

\* msg = (e.stderr or "").strip() or (e.stdout or "").strip() or str(e)
failure_message(e, args) ==
    IF Strip(e.stderr) # <<>> THEN Strip(e.stderr)
    ELSE IF Strip(e.stdout) # <<>> THEN Strip(e.stdout)
    ELSE StrOfError(args)

\* A variant that takes every failure for a deadlock.
every_failure_transient(msg) == TRUE

\* "Resource deadlock avoided" in msg or "[Errno 11]" in msg
is_transient(msg) == Contains(msg, SigDeadlock) \/ Contains(msg, SigErrno)

RECURSIVE Pow2(_)
Pow2(n) == IF n = 0 THEN 1 ELSE 2 * Pow2(n - 1)

\* A variant whose delay grows by initial_delay per retry.
linear_delay(k) == InitialDelay * (k + 1)

\* delay = initial_delay * (2 ** attempt)
backoff_delay(k) == InitialDelay * Pow2(k)

\* The note paths passed, one of them with a signature in its file name.
ToolNotePaths == {<<"a.note">>, <<SigErrno, ".note">>}

\* What the tool wrote to stderr and stdout when it exited non-zero.
ToolStderr == {<<>>, <<" ">>, <<"error">>, <<SigDeadlock, " ">>}

ToolStdout == {<<>>, <<"error">>, <<SigErrno>>}

\* What the tool wrote to the output file when it exited zero.
ToolTxt == {<<" ">>, <<" ", "a">>}

NoOutput == [run |-> "none", extract |-> "none"]

\* extract_text is called for a note.
tool_call ==
    /\ toolPc \in {"idle", "done"}
    /\ toolArgs' \in ToolNotePaths
    /\ toolPc' = "exec"
    /\ attempt' = 0
    /\ execLog' = <<>>
    /\ slept' = <<>>
    /\ toolOut' = NoOutput
    /\ calls' = {"extract_text"}
    /\ UNCHANGED <<envVars, ledger, now, procVars, events, runOutcome,
                   noteStatus, sent, passes, ledgerFault, ledgerVars, pureVars, raceVars, callVars>>

\* subprocess.run returns: run_supernote_tool returns its result and
\* extract_text returns txt.strip() or None.
tool_exec_ok ==
    /\ toolPc = "exec"
    /\ attempt <= Retries
    /\ \E txt \in ToolTxt :
          /\ execLog' = Append(execLog, [kind |-> "ok", stderr |-> <<>>, stdout |-> <<>>])
          /\ toolOut' = [run |-> "returned",
                         extract |-> IF Strip(txt) # <<>> THEN "text" ELSE "None"]
    /\ toolPc' = "done"
    /\ calls' = {"subprocess.run"}
    /\ UNCHANGED <<envVars, ledger, now, procVars, events, runOutcome,
                   noteStatus, sent, passes, ledgerFault, ledgerVars, pureVars, raceVars, callVars, toolArgs,
                   attempt, slept>>

\* subprocess.run raises FileNotFoundError: run_supernote_tool does not
\* catch it and extract_text turns it into ExtractionError("tool_missing").
tool_exec_not_found ==
    /\ toolPc = "exec"
    /\ attempt <= Retries
    /\ execLog' = Append(execLog, [kind |-> "FileNotFoundError",
                                   stderr |-> <<>>, stdout |-> <<>>])
    /\ toolOut' = [run |-> "FileNotFoundError", extract |-> "tool_missing"]
    /\ toolPc' = "done"
    /\ calls' = {"subprocess.run"}
    /\ UNCHANGED <<envVars, ledger, now, procVars, events, runOutcome,
                   noteStatus, sent, passes, ledgerFault, ledgerVars, pureVars, raceVars, callVars, toolArgs,
                   attempt, slept>>

\* subprocess.run raises CalledProcessError: sleep and go round the loop
\* again, or re-raise, which extract_text turns into
\* ExtractionError("tool_failed").
tool_exec_fails ==
    /\ toolPc = "exec"
    /\ attempt <= Retries
    /\ \E err \in ToolStderr, out \in ToolStdout :
          LET e == [kind |-> "CalledProcessError", stderr |-> err, stdout |-> out]
              msg == failure_message(e, toolArgs)
          IN  /\ execLog' = Append(execLog, e)
              /\ IF is_transient(msg) /\ attempt < Retries
                 THEN /\ slept' = Append(slept, backoff_delay(attempt))
                      /\ attempt' = attempt + 1
                      /\ calls' = {"subprocess.run", "time.sleep"}
                      /\ UNCHANGED <<toolPc, toolOut>>
                 ELSE /\ toolOut' = [run |-> "CalledProcessError",
                                     extract |-> "tool_failed"]
                      /\ toolPc' = "done"
                      /\ calls' = {"subprocess.run"}
                      /\ UNCHANGED <<attempt, slept>>
    /\ UNCHANGED <<envVars, ledger, now, procVars, events, runOutcome,
                   noteStatus, sent, passes, ledgerFault, ledgerVars, pureVars, raceVars, callVars, toolArgs>>

NextTool ==
    \/ tool_call
    \/ tool_exec_ok
    \/ tool_exec_not_found
    \/ tool_exec_fails

SpecTool == InitUnit /\ [][NextTool]_vars

(***************************************************************************)
(* Claims about storage.py, checked in SpecLedger.                         *)
(***************************************************************************)
\* C5: after any sequence of record_task_sync_results calls, the row of a
\* local_id has the created_at of the first call that carried a task and a
\* result for it, and the provider, external_id, status, completed,
\* last_synced_at and last_error of the latest such call.
C5_UpsertSemantics ==
    \A id \in DOMAIN rowHist :
        /\ id \in DOMAIN ledger
        /\ ledger[id].created_at = rowHist[id].first
        /\ ledger[id].provider = rowHist[id].result.provider
        /\ ledger[id].external_id = rowHist[id].result.external_id
        /\ ledger[id].status = rowHist[id].result.status
        /\ ledger[id].completed = (IF rowHist[id].completed THEN 1 ELSE 0)
        /\ ledger[id].last_synced_at = rowHist[id].latest
        /\ ledger[id].last_error = rowHist[id].result.error

\* A row created by one call was updated by a later one that changed its
\* status, external id and completed flag.
C5_Witness ==
    /\ ledgerCall.op = "record_task_sync_results"
    /\ \E id \in ledgerCall.changed :
          /\ ledger[id].created_at < ledger[id].last_synced_at
          /\ ledger[id].status = "failed"
          /\ ledger[id].completed = 1

\* C6: a call of record_task_sync_results(tasks, results) inserts or changes
\* only rows whose local_id occurs in tasks and in results.
C6_PartialBatches ==
    ledgerCall.op = "record_task_sync_results" =>
        ledgerCall.changed \subseteq (ledgerCall.task_ids \cap ledgerCall.result_ids)

\* A call whose tasks include one without a result: that task's existing row
\* stayed as it was while another row was written.
C6_Witness ==
    /\ ledgerCall.op = "record_task_sync_results"
    /\ ledgerCall.changed # {}
    /\ \E id \in ledgerCall.task_ids \ ledgerCall.result_ids :
          id \in DOMAIN ledger \ ledgerCall.changed

\* C7: get_known_task_ids returns the candidate ids that are keys of ledger
\* rows and changes no row; for an empty candidate list it returns the empty
\* set without reaching the connection or running a query.
C7_KnownIds ==
    ledgerCall.op = "get_known_task_ids" =>
        /\ ledgerCall.returned = Range(ledgerCall.local_ids) \cap DOMAIN ledger
        /\ ledgerCall.changed = {}
        /\ ledgerCall.local_ids = <<>> =>
              /\ ledgerCall.returned = {}
              /\ ~ledgerCall.queried
              /\ connOpen = ledgerCall.conn_was

\* Two ids were asked for and one of them is a key of the table.
C7_Witness ==
    /\ ledgerCall.op = "get_known_task_ids"
    /\ ledgerCall.returned # {}
    /\ Range(ledgerCall.local_ids) \ ledgerCall.returned # {}
(***************************************************************************)
(* Claims about run_supernote_tool, checked in SpecTool.                   *)
(***************************************************************************)
\* The failure of an execution is of the transient class: a non-zero exit
\* whose message contains one of the two signatures.
TransientFailure(o) ==
    /\ o.kind = "CalledProcessError"
    /\ \/ Contains(failure_message(o, toolArgs), SigDeadlock)
       \/ Contains(failure_message(o, toolArgs), SigErrno)

\* Execution i of the current call was followed by a sleep and a retry.
Retried(i) == i < Len(execLog) \/ (i = Len(execLog) /\ toolPc = "exec")

\* C10: run_supernote_tool retries an execution only when it failed with a
\* message containing "Resource deadlock avoided" or "[Errno 11]"; any other
\* failure (another non-zero exit, the binary not found) ends the call at
\* the execution that produced it, raised as it is with no sleep after it,
\* so that a call whose first execution fails this way makes exactly one
\* attempt and no delay.
C10_RetryOnlyTransient ==
    /\ \A i \in 1..Len(execLog) : Retried(i) => TransientFailure(execLog[i])
    /\ \A i \in 1..Len(execLog) :
          (execLog[i].kind # "ok" /\ ~TransientFailure(execLog[i])) =>
              /\ i = Len(execLog)
              /\ toolPc = "done"
              /\ toolOut.run = execLog[i].kind
              /\ Len(slept) = i - 1
    /\ (execLog # <<>> /\ execLog[1].kind # "ok" /\ ~TransientFailure(execLog[1])) =>
          (Len(execLog) = 1 /\ slept = <<>>)

\* A transient failure was retried and the next execution failed with a
\* message without a signature: raised at once, after the one sleep.
C10_Witness ==
    /\ toolPc = "done"
    /\ Len(execLog) = 2
    /\ TransientFailure(execLog[1])
    /\ execLog[2].kind = "CalledProcessError"
    /\ ~TransientFailure(execLog[2])
    /\ toolOut.run = "CalledProcessError"
    /\ slept = <<InitialDelay>>

\* C10 as stated: whenever the call raises a failure outside the transient
\* class, it made exactly one attempt and slept for no delay.
C10_OneAttemptNoDelay ==
    (/\ toolPc = "done"
     /\ toolOut.run \in {"CalledProcessError", "FileNotFoundError"}
     /\ ~TransientFailure(execLog[Len(execLog)])) =>
        (Len(execLog) = 1 /\ slept = <<>>)
C12_FallbackCopy ==
    (/\ toolPc = "done"
     /\ toolOut.run = "CalledProcessError"
     /\ Len(execLog) >= Retries + 1
     /\ \A i \in 1..(Retries + 1) : TransientFailure(execLog[i])) =>
        Len(execLog) = Retries + 2
(***************************************************************************)
(* The todo providers on their own: sync_tasks called with any batch,      *)
(* with or without a token, with a well-formed or a scheme-less base URL,  *)
(* each request ending in any of its outcomes.                             *)
(***************************************************************************)
\* The batches passed: what the extractor yields for the contents of a note.
SyncBatches ==
    {extract_tasks_from_markdown(t, "b1", RelMd(n)) :
        t \in TextPool, n \in Range(NoteFiles("b1"))}

\* TodoistProvider.sync_tasks builds the Request for each task outside its
\* try block: urllib's Request raises ValueError for a URL without a scheme
\* (SUPERSIDIAN_TODOIST_BASE_URL such as "api.todoist.com/rest/v2").
TodoistProvider_raises(tasks, token, url_valid) ==
    tasks # <<>> /\ token /\ ~url_valid

noop_sync ==
    /\ \E tasks \in SyncBatches :
          syncCall' = [provider  |-> "noop",
                       tasks     |-> tasks,
                       token     |-> FALSE,
                       url_valid |-> TRUE,
                       http      |-> <<>>,
                       outcome   |-> "returned",
                       results   |-> NoopTodoProvider_sync_tasks(tasks)]
    /\ UNCHANGED <<runVars, ledgerVars, toolVars, raceVars, callVars, notifyCall, pingCall>>

todoist_sync ==
    /\ \E tasks \in SyncBatches, token \in BOOLEAN, url_valid \in BOOLEAN :
          \E http \in [1..Len(tasks) -> HttpOutcomes] :
             syncCall' =
                 IF TodoistProvider_raises(tasks, token, url_valid)
                 THEN [provider  |-> "todoist",
                       tasks     |-> tasks,
                       token     |-> token,
                       url_valid |-> url_valid,
                       http      |-> <<>>,
                       outcome   |-> "ValueError",
                       results   |-> <<>>]
                 ELSE [provider  |-> "todoist",
                       tasks     |-> tasks,
                       token     |-> token,
                       url_valid |-> url_valid,
                       http      |-> IF token THEN http ELSE <<>>,
                       outcome   |-> "returned",
                       results   |-> TodoistProvider_sync_tasks(tasks, token, http)]
    /\ UNCHANGED <<runVars, ledgerVars, toolVars, raceVars, callVars, notifyCall, pingCall>>

NextProvider ==
    \/ noop_sync
    \/ todoist_sync

SpecProvider == InitUnit /\ [][NextProvider]_vars

\* C13: sync_tasks of the Todoist and noop providers never raises and
\* returns one result per input task, in input order and with the task's
\* local_id; a request that failed (HTTPError, URLError) and a missing
\* token are reported as status "failed" with an error message.
C13_OneToOne ==
    syncCall.provider # "none" =>
        /\ syncCall.outcome = "returned"
        /\ Len(syncCall.results) = Len(syncCall.tasks)
        /\ \A i \in 1..Len(syncCall.tasks) :
              /\ syncCall.results[i].local_id = syncCall.tasks[i].local_id
              /\ (\/ (syncCall.provider = "todoist" /\ ~syncCall.token)
                  \/ (syncCall.http # <<>>
                      /\ syncCall.http[i] \in {"HTTPError", "URLError"})) =>
                    (/\ syncCall.results[i].status = "failed"
                     /\ syncCall.results[i].error # NULL)
(***************************************************************************)
(* send_notifications and ping_healthcheck on their own.                   *)
(***************************************************************************)
\* The provider lists passed (provider.name of each element).
NotifyLists ==
    {<<>>, <<"webhook">>, <<"menubar", "webhook">>, <<"webhook", "menubar", "webhook">>}

\* What provider.send does: returns True, returns False, raises.
SendBehaviours == {"True", "False", "raises"}

\* What the request of ping_healthcheck does.
PingRequests == {"ok", "HTTPError", "URLError", "timeout"}

\* should_send = always_send or provider.name == "menubar"
should_send(always_send, name) == always_send \/ name = "menubar"

\* A variant without the except clause around provider.send.
send_uncaught(behaviour) == IF behaviour = "raises" THEN "raise" ELSE "continue"

\* try: provider.send(...) except Exception: log.warning(...): the loop goes
\* on whatever send did.
after_send(behaviour) == "continue"

\* try: urlopen(url, timeout=5) except Exception: the function returns
\* whatever the request did.
after_ping(request) == "returned"

notify_call ==
    /\ notifyCall.outcome # "running"
    /\ \E providers \in NotifyLists, always_send \in BOOLEAN :
          \E behaviours \in [1..Len(providers) -> SendBehaviours] :
             notifyCall' = [providers   |-> providers,
                            behaviours  |-> behaviours,
                            always_send |-> always_send,
                            idx         |-> IF providers = <<>> THEN 0 ELSE 1,
                            sends       |-> <<>>,
                            outcome     |-> IF providers = <<>> THEN "returned"
                                            ELSE "running"]
    /\ UNCHANGED <<runVars, ledgerVars, toolVars, raceVars, callVars, syncCall, pingCall>>

\* One iteration of the loop over providers.
notify_provider ==
    /\ notifyCall.outcome = "running"
    /\ LET i == notifyCall.idx
           send == should_send(notifyCall.always_send, notifyCall.providers[i])
           after == IF send THEN after_send(notifyCall.behaviours[i]) ELSE "continue"
       IN  notifyCall' =
               [notifyCall EXCEPT
                   !.sends = IF send THEN Append(@, i) ELSE @,
                   !.idx = IF after = "continue" THEN i + 1 ELSE i,
                   !.outcome = IF after = "raise" THEN "raised"
                               ELSE IF i = Len(notifyCall.providers) THEN "returned"
                               ELSE "running"]
    /\ UNCHANGED <<runVars, ledgerVars, toolVars, raceVars, callVars, syncCall, pingCall>>

ping_call ==
    /\ \E configured \in BOOLEAN, suffix \in {"/start", "/fail", ""},
          request \in PingRequests :
          pingCall' = [configured |-> configured,
                       suffix     |-> suffix,
                       request    |-> IF configured THEN request ELSE "none",
                       outcome    |-> IF configured THEN after_ping(request)
                                      ELSE "returned"]
    /\ UNCHANGED <<runVars, ledgerVars, toolVars, raceVars, callVars, syncCall, notifyCall>>

NextAux ==
    \/ notify_call
    \/ notify_provider
    \/ ping_call

SpecAux == InitUnit /\ [][NextAux]_vars

\* The positions of the providers the call is to send to.
ToSend(upto) ==
    {i \in 1..upto : notifyCall.always_send \/ notifyCall.providers[i] = "menubar"}

\* C14: whatever provider.send does (True, False, an exception) and whatever
\* the healthcheck request does (error, timeout), send_notifications and
\* ping_healthcheck return normally, and every provider the call is to send
\* to is sent to, once and in order, also after an earlier send raised.
C14_DeliveryNeverPropagates ==
    /\ notifyCall.outcome \in {"none", "running", "returned"}
    /\ pingCall.outcome \in {"none", "returned"}
    /\ notifyCall.outcome = "returned" =>
          /\ Range(notifyCall.sends) = ToSend(Len(notifyCall.providers))
          /\ \A j, k \in 1..Len(notifyCall.sends) :
                j < k => notifyCall.sends[j] < notifyCall.sends[k]
    /\ notifyCall.outcome = "running" =>
          Range(notifyCall.sends) = ToSend(notifyCall.idx - 1)

\* The first provider's send raised, the two after it were sent to, the
\* call returned; a healthcheck request timed out and the ping returned.
C14_Witness ==
    /\ notifyCall.outcome = "returned"
    /\ Len(notifyCall.providers) = 3
    /\ notifyCall.behaviours[1] = "raises"
    /\ notifyCall.sends = <<1, 2, 3>>
    /\ pingCall.request = "timeout"
    /\ pingCall.outcome = "returned"
(***************************************************************************)
(* Claims about main(), checked in Spec.                                   *)
(***************************************************************************)
\* A step in which an exception is raised under process_bridge (here: by a
\* ledger operation) while main() is in its loop over the bridges.
C15_FatalStep ==
    (ledgerFault = "none" /\ ledgerFault' # "none") =>
        /\ runOutcome = "running"
        /\ runOutcome' = "aborted"
        /\ pc' = "idle"
        /\ bridgeIdx' = 0
        /\ "ping_fail" \in calls'
        /\ calls' \cap {"ping_ok", "ping_start", "list_notes", "write_status_note",
                        "send_notifications", "write_note"} = {}

\* C15: when an exception escapes process_bridge for a bridge, the loop over
\* the bridges is left (no later bridge is processed), the "/fail" ping is
\* the only ping issued, and the exception leaves main(): the run is over
\* and stays aborted until another run is started.
C15_UnhandledFaultFatal ==
    /\ [][C15_FatalStep]_vars
    /\ [](runOutcome = "aborted" => (pc = "idle" /\ bridgeIdx = 0))
    /\ [][(runOutcome = "aborted" /\ runOutcome' # "aborted") =>
              "ping_start" \in calls']_vars

\* A ledger write failed in the first bridge: the run is aborted with the
\* "/fail" ping, the second bridge untouched.
C15_Witness ==
    /\ runOutcome = "aborted"
    /\ ledgerFault = "write"
    /\ calls = {"record_task_sync_results", "ping_fail"}
    /\ pc = "idle"

\* The tasks of the current note that pass the filter of
\* process_note_for_bridge, stated on the table itself: not completed, and
\* no row under their local_id.
PassedFilter ==
    SelectSeq(NoteTasks(CurrentNote),
              LAMBDA t : ~t.completed /\ t.local_id \notin DOMAIN ledger)

C16_OrderStep ==
    /\ "sync_tasks" \in calls' =>
          /\ pc = "sync"
          /\ {"extract_text", "get_known_task_ids"} \subseteq calls
          /\ batch # <<>>
          /\ batch = PassedFilter
          /\ batch' = batch
          /\ ledger' = ledger
          /\ \A j \in 1..Len(results') :
                \E i \in 1..Len(batch) : results'[j].local_id = batch[i].local_id
    /\ "record_task_sync_results" \in calls' =>
          /\ calls = {"sync_tasks"}
          /\ "write_note" \notin calls'
    /\ "write_note" \in calls' =>
          \/ calls = {"record_task_sync_results"}
          \/ ("extract_text" \in calls /\ batch = <<>>)

\* C16: for every note, the extraction of the text, the tasks and the
\* ledger lookup are complete before the provider call for that note; the
\* provider is called with exactly the tasks that passed the filter (open,
\* no row in the ledger); record_task_sync_results for that batch is the
\* next call after the provider call, and the note file is written only
\* after it (or directly after the lookup when no task passed the filter).
C16_PerNoteOrdering == [][C16_OrderStep]_vars

C16_Witness ==
    /\ pc = "write"
    /\ calls = {"record_task_sync_results"}
    /\ batch # <<>>
    /\ Len(batch) < Len(NoteTasks(CurrentNote))
    /\ \A i \in 1..Len(batch) : batch[i].local_id \in DOMAIN ledger

(***************************************************************************)
(* Two processes running main() at the same time (a scheduled run that     *)
(* starts while another run is still going) on the same note file and the  *)
(* same tasks.db.  Each process has its own sqlite3 connection; a SELECT   *)
(* sees what has been committed, and record_task_sync_results commits its  *)
(* rows in one transaction.  Nothing in main(), process_bridge or          *)
(* storage.py keeps a second process from starting or makes it wait.       *)
(***************************************************************************)
RaceNote == <<"b1", "n1">>

\* What the steps of the two processes leave alone.
raceRest == <<now, procVars, histVars, ledgerVars, toolVars, pureVars, callVars>>

\* main() and process_bridge reach the note file; it is old enough, and the
\* .md is missing or older than it.
run_begin(p) ==
    /\ runs[p].pc = "idle"
    /\ ~mdFresh[RaceNote]
    /\ runs' = [runs EXCEPT ![p].pc = "lookup"]
    /\ UNCHANGED <<raceRest, envVars, ledger, providerLog>>

\* extract_text .. get_known_task_ids and the filter.
run_lookup(p) ==
    /\ runs[p].pc = "lookup"
    /\ LET tasks == NoteTasks(RaceNote)
           task_ids == [i \in 1..Len(tasks) |-> tasks[i].local_id]
           known_ids == get_known_task_ids(ledger, task_ids)
           open == IF tasks = <<>> THEN <<>> ELSE new_open_tasks(tasks, known_ids)
       IN  runs' = [runs EXCEPT ![p].batch = open,
                                ![p].pc = IF open # <<>> THEN "sync" ELSE "write"]
    /\ UNCHANGED <<raceRest, envVars, ledger, providerLog>>

run_sync(p) ==
    /\ runs[p].pc = "sync"
    /\ \E http \in [1..Len(runs[p].batch) -> RunHttpOutcomes] :
          runs' = [runs EXCEPT
                      ![p].results = sync_tasks(get_provider(todoEnv), runs[p].batch,
                                                todoToken, http),
                      ![p].pc = "record"]
    /\ providerLog' = Append(providerLog,
                             [run |-> p, local_ids |-> TaskIds(runs[p].batch)])
    /\ UNCHANGED <<raceRest, envVars, ledger>>

run_record(p) ==
    /\ runs[p].pc = "record"
    /\ ledger' = record_task_sync_results(ledger, runs[p].batch, runs[p].results, now)
    /\ runs' = [runs EXCEPT ![p].pc = "write"]
    /\ UNCHANGED <<raceRest, envVars, providerLog>>

\* note_provider.write_note; the run goes on to its end.
run_write(p) ==
    /\ runs[p].pc = "write"
    /\ mdFresh' = [mdFresh EXCEPT ![RaceNote] = TRUE]
    /\ runs' = [runs EXCEPT ![p].pc = "done"]
    /\ UNCHANGED <<raceRest, todoEnv, todoToken, noteText, tooRecent, ledger, providerLog>>

NextRace ==
    \/ \E p \in RunIds : run_begin(p)
    \/ \E p \in RunIds : run_lookup(p)
    \/ \E p \in RunIds : run_sync(p)
    \/ \E p \in RunIds : run_record(p)
    \/ \E p \in RunIds : run_write(p)

SpecRace == InitUnit /\ [][NextRace]_vars

\* C17: no local_id is passed to the provider by two overlapping runs.
C17_NoRaceOnLocalId ==
    \A i, j \in 1..Len(providerLog) :
        (providerLog[i].run # providerLog[j].run) =>
            providerLog[i].local_ids \cap providerLog[j].local_ids = {}

(***************************************************************************)
(* notes/__init__.py: the note provider registry.                          *)
(***************************************************************************)
\* The padding put around the names tried: up to MaxPad spaces on each side.
MaxPad == 2

UpperCase == <<"A", "B", "C", "D", "E", "F", "G", "H", "I", "J", "K", "L", "M", "N", "O", "P", "Q", "R", "S", "T", "U", "V", "W", "X", "Y", "Z">>

LowerCase == <<"a", "b", "c", "d", "e", "f", "g", "h", "i", "j", "k", "l", "m", "n", "o", "p", "q", "r", "s", "t", "u", "v", "w", "x", "y", "z">>

\* A variant of str.lower() that keeps the case.
same_case(s) == s

\* str.lower() and str.upper() on the characters used.
lower(s) ==
    [i \in 1..Len(s) |->
        IF \E k \in 1..26 : UpperCase[k] = s[i]
        THEN LowerCase[CHOOSE k \in 1..26 : UpperCase[k] = s[i]]
        ELSE s[i]]

upper(s) ==
    [i \in 1..Len(s) |->
        IF \E k \in 1..26 : LowerCase[k] = s[i]
        THEN UpperCase[CHOOSE k \in 1..26 : LowerCase[k] = s[i]]
        ELSE s[i]]

capitalize(s) == IF s = <<>> THEN s ELSE upper(SubSeq(s, 1, 1)) \o SubSeq(s, 2, Len(s))

NameObsidian == <<"o", "b", "s", "i", "d", "i", "a", "n">>

NameMarkdown == <<"m", "a", "r", "k", "d", "o", "w", "n">>

NameNoop == <<"n", "o", "o", "p">>

\* _PROVIDER_FACTORIES after _register_defaults(): both optional imports
\* succeed (obsidian.py and markdown.py import the standard library only).
PROVIDER_FACTORIES ==
    {[key |-> NameNoop, class |-> "NoopNoteProvider"],
     [key |-> NameObsidian, class |-> "ObsidianProvider"],
     [key |-> NameMarkdown, class |-> "PlainMarkdownProvider"]}

FactoryFor(key) ==
    IF \E f \in PROVIDER_FACTORIES : f.key = key
    THEN (CHOOSE f \in PROVIDER_FACTORIES : f.key = key).class
    ELSE NULL

\* Optional[str]: None, or a string.
None == [some |-> FALSE, value |-> <<>>]

Some(s) == [some |-> TRUE, value |-> s]

\* notes.get_provider(name).
notes_get_provider(name) ==
    LET n == IF ~name.some \/ name.value = <<>> THEN NameObsidian ELSE name.value
        key == lower(Strip(n))
        factory == FactoryFor(key)
    IN  IF factory # NULL THEN factory
        ELSE IF FactoryFor(NameObsidian) # NULL THEN FactoryFor(NameObsidian)
        ELSE "NoopNoteProvider"

\* notes.provider_from_env(): env is os.environ's SUPERSIDIAN_NOTE_PROVIDER,
\* None when it is not set.
notes_provider_from_env(env) ==
    LET raw == IF env.some THEN env.value ELSE <<>>
        name == IF Strip(raw) = <<>> THEN None ELSE Some(Strip(raw))
    IN  notes_get_provider(name)

\* The names tried: the registered names, two that are not registered and
\* the empty string, in lower case, upper case and capitalized, with padding.
NameBases == {NameObsidian, NameMarkdown, NameNoop, <<"t", "o", "d", "o", "i", "s", "t">>, <<"n", "o", " ", "o", "p">>, <<>>}

Spaces(k) == [i \in 1..k |-> " "]

CasedInputs ==
    UNION {{[base |-> b, name |-> Some(Spaces(l) \o v \o Spaces(r))] :
               v \in {b, upper(b), capitalize(b)}, l \in 0..MaxPad, r \in 0..MaxPad} :
           b \in NameBases}

OptionalInputs == CasedInputs \cup {[base |-> <<>>, name |-> None]}

notes_get_provider_call ==
    /\ \E in \in OptionalInputs :
          resolveCall' = [op       |-> "get_provider",
                          base     |-> in.base,
                          name     |-> in.name,
                          returned |-> notes_get_provider(in.name)]
    /\ UNCHANGED <<runVars, ledgerVars, toolVars, pureVars, raceVars, reflowCall, extractCall,
                   mainRun>>

notes_provider_from_env_call ==
    /\ \E in \in OptionalInputs :
          resolveCall' = [op       |-> "provider_from_env",
                          base     |-> in.base,
                          name     |-> in.name,
                          returned |-> notes_provider_from_env(in.name)]
    /\ UNCHANGED <<runVars, ledgerVars, toolVars, pureVars, raceVars, reflowCall, extractCall,
                   mainRun>>

NextNotes ==
    \/ notes_get_provider_call
    \/ notes_provider_from_env_call

SpecNotes == InitUnit /\ [][NextNotes]_vars

\* C18: get_provider and provider_from_env return the provider registered
\* under the name they are given, whatever its padding and its case, and the
\* Obsidian provider for None (an unset variable), the empty string, a blank
\* string and a name that is not registered.
C18_ProviderResolution ==
    resolveCall.op \in {"get_provider", "provider_from_env"} =>
        resolveCall.returned =
            (IF resolveCall.base = NameObsidian THEN "ObsidianProvider"
             ELSE IF resolveCall.base = NameMarkdown THEN "PlainMarkdownProvider"
             ELSE IF resolveCall.base = NameNoop THEN "NoopNoteProvider"
             ELSE "ObsidianProvider")

C18_Witness ==
    /\ resolveCall.op = "get_provider"
    /\ resolveCall.base = NameMarkdown
    /\ resolveCall.name = Some(Spaces(MaxPad) \o upper(NameMarkdown) \o Spaces(1))
    /\ resolveCall.returned = "PlainMarkdownProvider"

(***************************************************************************)
(* unwrap_and_markdown.  A text is the sequence of its lines (what         *)
(* split("\n") gives once the line ends are normalised), a line is a       *)
(* sequence of characters.  A character outside ASCII is written as its    *)
(* code point: "U+2610" is the hollow box, "U+2611" and "U+2612" the       *)
(* checked boxes, "U+00D7" the multiplication sign, "U+FF3B" .. "U+300F"   *)
(* the full-width and decorative brackets.                                 *)
(***************************************************************************)
BULLET_CHARS == {"U+2022", "U+2013", "U+2014", "*", "-", "+", "U+00B7", "U+25BA"}

Digits == {"0", "1", "2", "3", "4", "5", "6", "7", "8", "9"}

isupper(c) == \E k \in 1..26 : UpperCase[k] = c

isalpha(c) == \E k \in 1..26 : UpperCase[k] = c \/ LowerCase[k] = c

lstrip(s) == SubSeq(s, LeadWs(s) + 1, Len(s))

rstrip(s) == SubSeq(s, 1, Len(s) - TrailWs(s))

\* The length of the run of characters of S in s from position i on.
RECURSIVE RunLen(_, _, _)
RunLen(s, i, S) ==
    IF i > Len(s) \/ s[i] \notin S THEN 0 ELSE 1 + RunLen(s, i + 1, S)

At(s, i) == IF i >= 1 /\ i <= Len(s) THEN s[i] ELSE NULL

\* bullet_start: leading whitespace, then one bullet character or a
\* checkbox "[ ]", "[x]", "[X]", then at least one whitespace.
bullet_start(line) ==
    LET i == LeadWs(line)
    IN  \/ At(line, i + 1) \in BULLET_CHARS /\ At(line, i + 2) \in Whitespace
        \/ /\ At(line, i + 1) = "["
           /\ At(line, i + 2) \in {" ", "x", "X"}
           /\ At(line, i + 3) = "]"
           /\ At(line, i + 4) \in Whitespace

\* numbered_start: leading whitespace, digits, "." or ")", whitespace.
numbered_start(line) ==
    LET i == LeadWs(line)
        d == RunLen(line, i + 1, Digits)
    IN  /\ d >= 1
        /\ At(line, i + d + 1) \in {".", ")"}
        /\ At(line, i + d + 2) \in Whitespace

\* heading_start: leading whitespace, one to six "#", whitespace.
heading_start(line) ==
    LET i == LeadWs(line)
        h == RunLen(line, i + 1, {"#"})
    IN  /\ h >= 1 /\ h <= 6
        /\ At(line, i + h + 1) \in Whitespace

\* taskish_start: leading whitespace, then a mis-read checkbox "(]", "I]",
\* "1]", "l]" or "|]", a box glyph, or "[", the multiplication sign, "]".
taskish_start(line) ==
    LET i == LeadWs(line)
    IN  \/ At(line, i + 1) \in {"(", "I", "1", "l", "|"} /\ At(line, i + 2) = "]"
        \/ At(line, i + 1) \in {"U+2610", "U+2611", "U+2612"}
        \/ At(line, i + 1) = "[" /\ At(line, i + 2) = "U+00D7" /\ At(line, i + 3) = "]"

blank(line) == Strip(line) = <<>>

curr_new_block(line) ==
    \/ bullet_start(line)
    \/ numbered_start(line)
    \/ heading_start(line)
    \/ taskish_start(line)
    \/ blank(line)

\* prev_blank or prev.endswith("  ")
prev_hard(prev) ==
    \/ blank(prev)
    \/ (Len(prev) >= 2 /\ prev[Len(prev)] = " " /\ prev[Len(prev) - 1] = " ")

\* re.search(r"[^\s-]-$", prev)
prev_hyphen(prev) ==
    /\ Len(prev) >= 2
    /\ prev[Len(prev)] = "-"
    /\ prev[Len(prev) - 1] \notin Whitespace \cup {"-"}

curr_looks_like_item(line) == lstrip(line) # <<>> /\ isupper(lstrip(line)[1])

\* A variant that never sees a heading nearby.
never_near_heading(len_out, last_heading_index) == FALSE

\* lines_since_heading <= 5
near_heading(len_out, last_heading_index) == len_out - last_heading_index <= 5

\* One turn of the first loop, for raw line number i (from 0): out and
\* last_heading_index after it.
pass1_step(st, line, i) ==
    IF i = 0
    THEN [out |-> <<line>>,
          last_heading_index |-> IF heading_start(line) THEN 0 ELSE st.last_heading_index]
    ELSE LET prev == st.out[Len(st.out)]
             lhi == IF heading_start(line) THEN Len(st.out) ELSE st.last_heading_index
             merge == /\ ~prev_hard(prev)
                      /\ ~curr_new_block(line)
                      /\ ~heading_start(prev)
                      /\ ~curr_looks_like_item(line)
                      /\ ~near_heading(Len(st.out), lhi)
             joined == IF prev_hyphen(prev)
                       THEN SubSeq(prev, 1, Len(prev) - 1) \o lstrip(line)
                       ELSE rstrip(prev) \o <<" ">> \o lstrip(line)
         IN  [out |-> IF merge
                      THEN [st.out EXCEPT ![Len(st.out)] = joined]
                      ELSE Append(st.out, line),
              last_heading_index |-> lhi]

\* The first loop over the first n raw lines.
RECURSIVE pass1(_, _)
pass1(raw, n) ==
    IF n = 0 THEN [out |-> <<>>, last_heading_index |-> -10]
    ELSE pass1_step(pass1(raw, n - 1), raw[n], n - 1)

\* _cap_first_letter: the first alphabetic character in upper case.
RECURSIVE cap_first_letter(_)
cap_first_letter(s) ==
    IF s = <<>> THEN s
    ELSE IF isalpha(s[1]) THEN upper(<<s[1]>>) \o Tail(s)
    ELSE <<s[1]>> \o cap_first_letter(Tail(s))

\* str.replace: every occurrence of pat, from the left, without overlap.
RECURSIVE str_replace(_, _, _)
str_replace(s, pat, rep) ==
    IF Len(s) < Len(pat) THEN s
    ELSE IF SubSeq(s, 1, Len(pat)) = pat
    THEN rep \o str_replace(SubSeq(s, Len(pat) + 1, Len(s)), pat, rep)
    ELSE <<s[1]>> \o str_replace(Tail(s), pat, rep)

Box == <<"[", " ", "]">>

BoxX == <<"[", "x", "]">>

\* The chain of replacements at the head of the second loop, in its order.
CheckboxTable ==
    << <<<<"U+2610">>, Box>>, <<<<"U+2611">>, BoxX>>, <<<<"U+2612">>, BoxX>>,
       <<<<"[", "U+00D7", "]">>, BoxX>>,
       <<<<"U+FF3B">>, <<"[">>>>, <<<<"U+3010">>, <<"[">>>>,
       <<<<"U+3016">>, <<"[">>>>, <<<<"U+300E">>, <<"[">>>>,
       <<<<"U+FF3D">>, <<"]">>>>, <<<<"U+3011">>, <<"]">>>>,
       <<<<"U+3017">>, <<"]">>>>, <<<<"U+300F">>, <<"]">>>>,
       <<<<"(", "]">>, Box>>, <<<<"I", "]">>, Box>>, <<<<"1", "]">>, Box>>,
       <<<<"l", "]">>, Box>>, <<<<"|", "]">>, Box>> >>

RECURSIVE replace_chain(_, _)
replace_chain(line, k) ==
    IF k = 0 THEN line
    ELSE str_replace(replace_chain(line, k - 1), CheckboxTable[k][1], CheckboxTable[k][2])

\* A variant that leaves the glyphs as they are.
keep_glyphs(line) == line

normalize_checkboxes(line) == replace_chain(line, Len(CheckboxTable))

\* "    " * max(level - 1, 0)
extra_indent(level) == [k \in 1..(4 * Max({level - 1, 0})) |-> " "]

Min(S) == CHOOSE x \in S : \A y \in S : x <= y

\* f"{base_indent}{extra_indent}- {text_content}"
nested_bullet(base_indent, level, content) ==
    base_indent \o extra_indent(level) \o <<"-", " ">> \o cap_first_letter(rstrip(content))

\* The positions j at which the prefix group of the mid-line pattern can end:
\* a non-space character, whitespace, "-", whitespace, a hyphen.
MidEnds(line) ==
    {j \in 1..Len(line) :
        LET w1 == RunLen(line, j + 1, Whitespace)
            w2 == RunLen(line, j + w1 + 2, Whitespace)
        IN  /\ line[j] \notin Whitespace
            /\ w1 >= 1
            /\ At(line, j + w1 + 1) = "-"
            /\ w2 >= 1
            /\ At(line, j + w1 + w2 + 2) = "-"}

\* What one line of out contributes to final.
pass2_line(line0) ==
    LET line == normalize_checkboxes(line0)
        i == LeadWs(line)
        indent == SubSeq(line, 1, i)
        \* mid: ^(\s*)(.*\S)\s+-\s+(-{1,6})\s*(.*)$, the greedy prefix
        j == Max(MidEnds(line))
        mw1 == RunLen(line, j + 1, Whitespace)
        mw2 == RunLen(line, j + mw1 + 2, Whitespace)
        mh == Min({6, RunLen(line, j + mw1 + mw2 + 2, {"-"})})
        mrest == SubSeq(line, j + mw1 + mw2 + mh + 2, Len(line))
        \* special: ^(\s*)-\s+(-{1,6})\s*(.*)$
        sw == RunLen(line, i + 2, Whitespace)
        sh == Min({6, RunLen(line, i + sw + 2, {"-"})})
        srest == SubSeq(line, i + sw + sh + 2, Len(line))
        \* nest_rx: ^(\s*)(-{1,6})\s+(.*)$
        nh == RunLen(line, i + 1, {"-"})
        nw == RunLen(line, i + nh + 1, Whitespace)
        \* task_rx: ^(\s*)\[( |x|X)\]\s+(.*)$
        tw == RunLen(line, i + 4, Whitespace)
        \* bullet_rx, and what is left once it is removed
        bw == IF At(line, i + 1) = "[" THEN 3 ELSE 1
        bcontent == rstrip(SubSeq(line, i + bw + RunLen(line, i + bw + 1, Whitespace) + 1,
                                  Len(line)))
        bh == RunLen(bcontent, 1, {"-"})
        bnw == RunLen(bcontent, bh + 1, Whitespace)
        \* num_rx: ^(\s*)(\d+)[\.)]\s+
        nd == RunLen(line, i + 1, Digits)
        ncontent == rstrip(SubSeq(line, i + nd + RunLen(line, i + nd + 2, Whitespace) + 2,
                                  Len(line)))
    IN  IF blank(line0) \/ heading_start(line0) THEN <<rstrip(line0)>>
        ELSE IF MidEnds(line) # {}
        THEN <<indent \o rstrip(SubSeq(line, i + 1, j)),
               nested_bullet(indent, 1 + mh, lstrip(mrest))>>
        ELSE IF At(line, i + 1) = "-" /\ sw >= 1 /\ sh >= 1
        THEN <<nested_bullet(indent, 1 + sh, lstrip(srest))>>
        ELSE IF nh >= 1 /\ nh <= 6 /\ nw >= 1
        THEN <<nested_bullet(indent, nh, SubSeq(line, i + nh + nw + 1, Len(line)))>>
        ELSE IF /\ At(line, i + 1) = "["
                /\ At(line, i + 2) \in {" ", "x", "X"}
                /\ At(line, i + 3) = "]"
                /\ tw >= 1
        THEN <<indent \o <<"-", " ", "[">>
                      \o <<IF At(line, i + 2) \in {"x", "X"} THEN "x" ELSE " ">>
                      \o <<"]", " ">>
                      \o cap_first_letter(rstrip(SubSeq(line, i + tw + 4, Len(line))))>>
        ELSE IF bullet_start(line)
        THEN IF bh >= 1 /\ bh <= 6 /\ bnw >= 1
             THEN <<nested_bullet(indent, bh, SubSeq(bcontent, bh + bnw + 1, Len(bcontent)))>>
             ELSE <<indent \o <<"-", " ">> \o cap_first_letter(bcontent)>>
        ELSE IF numbered_start(line)
        THEN <<indent \o SubSeq(line, i + 1, i + nd) \o <<".", " ">>
                      \o cap_first_letter(ncontent)>>
        ELSE <<rstrip(line)>>

\* The second loop: final.
RECURSIVE pass2(_)
pass2(out) ==
    IF out = <<>> THEN <<>> ELSE pass2_line(Head(out)) \o pass2(Tail(out))

\* no strip(): the lines of final as they are
join_only(final) == IF final = <<>> THEN << <<>> >> ELSE final

\* ("\n".join(final)).strip() + "\n", as the lines of the text returned:
\* the blank lines at both ends go, the first line loses its indentation
\* and the last its trailing whitespace; a text of blank lines only gives
\* one empty line.
RECURSIVE drop_blank_head(_)
drop_blank_head(ls) ==
    IF ls = <<>> THEN ls
    ELSE IF blank(Head(ls)) THEN drop_blank_head(Tail(ls))
    ELSE ls

RECURSIVE drop_blank_tail(_)
drop_blank_tail(ls) ==
    IF ls = <<>> THEN ls
    ELSE IF blank(ls[Len(ls)]) THEN drop_blank_tail(SubSeq(ls, 1, Len(ls) - 1))
    ELSE ls

join_strip(final) ==
    LET kept == drop_blank_tail(drop_blank_head(final))
    IN  IF kept = <<>> THEN << <<>> >>
        ELSE [k \in 1..Len(kept) |->
                 LET a == IF k = 1 THEN lstrip(kept[k]) ELSE kept[k]
                 IN  IF k = Len(kept) THEN rstrip(a) ELSE a]

(***************************************************************************)
(* apply_aggressive_cleanups: the optional pass over the Markdown lines.   *)
(* The regular expressions are modelled by what the backtracking matcher   *)
(* returns: a greedy run of at most six "#", optional whitespace, and a    *)
(* title beginning with a non-whitespace character.  When only whitespace  *)
(* follows the run the matcher gives one "#" back to serve as the title.   *)
(***************************************************************************)
NoMatch == [matched |-> FALSE, indent |-> <<>>, hashes |-> <<>>, title |-> <<>>]

\* the groups of  (#{1,6}) \s* (\S.*) $  matched at position q of s
hash_groups(s, q) ==
    LET h == RunLen(s, q, {"#"})
        g == Min({h, 6})
        w == RunLen(s, q + g, Whitespace)
        t == q + g + w
    IN  IF h = 0 THEN NoMatch
        ELSE IF t <= Len(s)
             THEN [matched |-> TRUE, indent |-> SubSeq(s, 1, q - 1),
                   hashes |-> SubSeq(s, q, q + g - 1), title |-> SubSeq(s, t, Len(s))]
        ELSE IF g >= 2
             THEN [matched |-> TRUE, indent |-> SubSeq(s, 1, q - 1),
                   hashes |-> SubSeq(s, q, q + g - 2),
                   title |-> SubSeq(s, q + g - 1, Len(s))]
        ELSE NoMatch

\* re.match(r"^(\s*)(#{1,6})\s*(\S.*)$", raw)
heading_match(s) == hash_groups(s, LeadWs(s) + 1)

\* re.search(r"(#{1,6})\s*(\S.*)$", raw): the leftmost position that matches
inline_search(s) ==
    LET at == {q \in 1..Len(s) : hash_groups(s, q).matched}
    IN  IF at = {} THEN NoMatch
        ELSE hash_groups(s, CHOOSE q \in at : \A r \in at : q <= r)

\* raw.rfind(hashes), as a 0-based index; -1 when absent
rfind(s, pat) ==
    LET at == {q \in 1..(Len(s) - Len(pat) + 1) : SubSeq(s, q, q + Len(pat) - 1) = pat}
    IN  IF at = {} THEN -1 ELSE Max(at) - 1

\* the lines one pass-2 line becomes
aggressive_line(raw) ==
    LET m == heading_match(raw)
        inline == inline_search(raw)
        hash_pos == rfind(raw, inline.hashes)
        prefix == SubSeq(raw, 1, hash_pos)
        heading == SubSeq(raw, hash_pos + 1, Len(raw))
        m_head == heading_match(heading)
    IN  IF m.matched
        THEN <<m.indent \o m.hashes \o <<" ">> \o Strip(m.title)>>
        ELSE IF inline.matched /\ hash_pos > 0 /\ Strip(prefix) # <<>>
        THEN <<rstrip(prefix),
               IF m_head.matched
               THEN m_head.hashes \o <<" ">> \o Strip(m_head.title)
               ELSE Strip(heading)>>
        ELSE <<raw>>

RECURSIVE apply_aggressive_cleanups(_)
apply_aggressive_cleanups(lines) ==
    IF lines = <<>> THEN <<>>
    ELSE aggressive_line(Head(lines)) \o apply_aggressive_cleanups(Tail(lines))

\* lines 400-401: the pass runs only when the flag is set
final_lines(raw, aggressive) ==
    LET final == pass2(pass1(raw, Len(raw)).out)
    IN  IF aggressive THEN apply_aggressive_cleanups(final) ELSE final

\* the function from the list of raw lines on
reflow_lines(raw, aggressive) == join_strip(final_lines(raw, aggressive))

\* str.split(sep) for a one-character separator
RECURSIVE split(_, _)
split(s, sep) ==
    LET n == RunLen(s, 1, {c \in Range(s) : c # sep})
    IN  IF n = Len(s) THEN <<s>>
        ELSE <<SubSeq(s, 1, n)>> \o split(SubSeq(s, n + 2, Len(s)), sep)

\* raw = text.replace("\r\n", "\n").replace("\r", "\n").split("\n")
raw_lines(text) ==
    split(str_replace(str_replace(text, <<"\r", "\n">>, <<"\n">>), <<"\r">>, <<"\n">>), "\n")

\* unwrap_and_markdown(text, aggressive)
unwrap_and_markdown(text, aggressive) == reflow_lines(raw_lines(text), aggressive)

(***************************************************************************)
(* unwrap_and_markdown on its own: one call, on a text built from the      *)
(* lines below.                                                            *)
(***************************************************************************)
\* The number of lines put between a heading and the last two lines.
MaxGap == 6

RHeading == <<"#", " ", "H">>

RLine == <<"o", "n", "e">>

RCont == <<"t", "w", "o">>

RUpper == <<"T", "w", "o">>

RHard == <<"o", "n", "e", " ", " ">>

RHyph == <<"h", "y", "-">>

RParent == <<"-", " ", "p", "a", "r", "e", "n", "t">>

RChild == <<"-", "-", " ", "c", "h", "i", "l", "d">>

RDeep == <<"-", "-", "-", " ", "d", "e", "e", "p">>

RNum == <<"1", ".", " ", "n">>

RTask == <<"[", " ", "]", " ", "t">>

RBlank == <<>>

ReflowLines ==
    {RHeading, RLine, RCont, RUpper, RHard, RHyph, RParent, RChild, RDeep, RNum, RTask,
     RBlank}

FillerLines == {RUpper, RCont}

PrevLines == {RLine, RBlank, RHard, RHyph, RHeading, RParent}

CurrLines == {RCont, RUpper, RChild, RDeep, RParent, RBlank, RNum}

\* Checkbox markers as they come from the device, with the mark they stand
\* for, and contents with what they look like once their first letter is
\* in upper case and their trailing whitespace is gone.
CheckboxMarkers ==
    {[glyph |-> <<"U+2610">>, mark |-> " "], [glyph |-> <<"(", "]">>, mark |-> " "],
     [glyph |-> <<"I", "]">>, mark |-> " "], [glyph |-> <<"1", "]">>, mark |-> " "],
     [glyph |-> <<"l", "]">>, mark |-> " "], [glyph |-> <<"|", "]">>, mark |-> " "],
     [glyph |-> <<"[", " ", "]">>, mark |-> " "],
     [glyph |-> <<"U+2611">>, mark |-> "x"], [glyph |-> <<"U+2612">>, mark |-> "x"],
     [glyph |-> <<"[", "U+00D7", "]">>, mark |-> "x"],
     [glyph |-> <<"[", "x", "]">>, mark |-> "x"], [glyph |-> <<"[", "X", "]">>, mark |-> "x"]}

CheckboxContents ==
    {[raw |-> <<"b", "u", "y", " ", "m", "i", "l", "k">>, shown |-> <<"B", "u", "y", " ", "m", "i", "l", "k">>],
     [raw |-> <<"D", "o", "n", "e", " ", " ">>, shown |-> <<"D", "o", "n", "e">>],
     [raw |-> <<"2", "n", "d", " ", "t">>, shown |-> <<"2", "N", "d", " ", "t">>]}

CheckboxIndents == {<<>>, <<" ", " ">>}

CheckboxGaps == {<<" ">>, <<"\t", " ">>}

ChecklistTexts ==
    {before \o <<ind \o m.glyph \o gap \o c.raw>> :
        before \in {<<>>, <<RLine>>, <<RHeading>>, <<RParent, RBlank>>},
        ind \in CheckboxIndents, m \in CheckboxMarkers, gap \in CheckboxGaps,
        c \in CheckboxContents}

\* Lines with runs of "#": a heading without its space, a heading inside a
\* line, a run alone, a run of seven, a heading with two spaces, a run that
\* ends the line.
RTight == <<"#", "#", "T">>

RInline == <<"o", "n", "e", " ", "#", "#", "S">>

RBare == <<"#", "#">>

RSeven == <<"#", "#", "#", "#", "#", "#", "#", "x">>

RWide == <<"#", " ", " ", "T">>

RTrail == <<"o", "n", "e", " ", "#">>

HashLines == {RTight, RInline, RBare, RSeven, RWide, RTrail, RHeading}

HashTexts ==
    {<<a>> : a \in HashLines}
    \cup {<<a, RBlank, b>> : a \in HashLines \cup {RLine}, b \in HashLines \cup {RLine}}
    \cup {<<RLine, a>> : a \in HashLines}

\* Every text of one or two lines, and the texts made of an optional
\* heading, up to MaxGap equal lines and two more lines; the checklist texts.
ReflowTexts ==
    {<<a>> : a \in ReflowLines}
    \cup {<<a, b>> : a \in ReflowLines, b \in ReflowLines}
    \cup {h \o [k \in 1..g |-> f] \o <<a, b>> :
             h \in {<<>>, <<RHeading>>}, g \in 0..MaxGap, f \in FillerLines,
             a \in PrevLines, b \in CurrLines}
    \cup ChecklistTexts
    \cup HashTexts

\* The line endings a text may use, and the texts as the characters read
\* from the file: the lines joined with two endings in alternation.
LineEndings == {<<"\n">>, <<"\r", "\n">>, <<"\r">>}

RECURSIVE joined(_, _, _)
joined(ls, e1, e2) ==
    IF Len(ls) <= 1 THEN (IF ls = <<>> THEN <<>> ELSE ls[1])
    ELSE ls[1] \o e1 \o joined(Tail(ls), e2, e1)

\* Plain lines with trailing whitespace between blank lines, ending in a
\* line break.
TotalTexts == {<<RHard, RBlank, RHard, RBlank>>, <<RBlank, RHard, RBlank, RBlank>>}

\* Every text with "\n" between its lines, and the shorter ones with every
\* pair of endings.
ReflowInputs ==
    {joined(t, <<"\n">>, <<"\n">>) : t \in ReflowTexts}
    \cup {joined(t, e1, e2) : t \in HashTexts \cup TotalTexts,
                             e1 \in LineEndings, e2 \in LineEndings}

\* process_note_for_bridge calls it with aggressive=False unless the bridge
\* sets aggressive_cleanup.
reflow_call ==
    /\ ~reflowCall.called
    /\ \E text \in ReflowInputs, aggressive \in BOOLEAN :
          reflowCall' = [called |-> TRUE, input |-> text, text |-> raw_lines(text),
                         aggressive |-> aggressive,
                         returned |-> unwrap_and_markdown(text, aggressive)]
    /\ UNCHANGED <<runVars, ledgerVars, toolVars, pureVars, raceVars, resolveCall, extractCall,
                   mainRun>>

NextReflow == reflow_call

SpecReflow == InitUnit /\ [][NextReflow]_vars

\* The last raw line of the call and the state of the first loop before it.
LastLine == reflowCall.text[Len(reflowCall.text)]

OutBefore == pass1(reflowCall.text, Len(reflowCall.text) - 1).out

OutAfter == pass1(reflowCall.text, Len(reflowCall.text)).out

PrevOut == OutBefore[Len(OutBefore)]

Merged == Len(OutAfter) = Len(OutBefore)

\* A heading among the last five lines of out.
HeadingWithin5 ==
    \E k \in 1..Len(OutBefore) : heading_start(OutBefore[k]) /\ Len(OutBefore) - k < 5

EndsWithTwoSpaces(l) == Len(l) >= 2 /\ l[Len(l)] = " " /\ l[Len(l) - 1] = " "

BeginsUpper(l) == lstrip(l) # <<>> /\ isupper(lstrip(l)[1])

HyphenDepth(l) == RunLen(l, 1, {"-"})

IsNestLine(l) ==
    /\ HyphenDepth(l) >= 1 /\ HyphenDepth(l) <= 6
    /\ RunLen(l, HyphenDepth(l) + 1, Whitespace) >= 1
    /\ Strip(SubSeq(l, HyphenDepth(l) + 1, Len(l))) # <<>>

BulletAtDepth(l) ==
    Spaces(4 * (HyphenDepth(l) - 1)) \o <<"-", " ">>
        \o capitalize(Strip(SubSeq(l, HyphenDepth(l) + 1, Len(l))))

\* C20: every raw line made of n hyphens (1 to 6), whitespace and content
\* is a line of its own in the text returned: 4 * (n - 1) spaces, "- " and
\* the content with its first letter in upper case.
C20_NestingDepth ==
    reflowCall.called =>
        \A k \in 1..Len(reflowCall.text) :
            IsNestLine(reflowCall.text[k]) =>
                \E m \in 1..Len(reflowCall.returned) :
                    reflowCall.returned[m] = BulletAtDepth(reflowCall.text[k])

\* final, the list the second loop builds, for the call's text.
Final == pass2(OutAfter)

MaxMdLines == 3

MdLines ==
    {[line |-> <<"-", " ", "[", " ", "]", " ", "a">>, task |-> TRUE, title |-> <<"a">>, done |-> FALSE],
     [line |-> <<" ", " ", "-", " ", "[", "x", "]", " ", "b", " ", "c", " ", " ">>, task |-> TRUE, title |-> <<"b", " ", "c">>, done |-> TRUE],
     [line |-> <<"\t", "-", " ", "[", "X", "]", " ", "d">>, task |-> TRUE, title |-> <<"d">>, done |-> TRUE],
     [line |-> <<"-", "\t", "[", " ", "]", " ", " ", "e">>, task |-> TRUE, title |-> <<"e">>, done |-> FALSE],
     [line |-> <<"-", " ", "[", " ", "]", " ", " ", " ">>, task |-> FALSE, title |-> <<>>, done |-> FALSE],
     [line |-> <<"-", " ", "[", " ", "]">>, task |-> FALSE, title |-> <<>>, done |-> FALSE],
     [line |-> <<"-", " ", "[", " ", "]", "x">>, task |-> FALSE, title |-> <<>>, done |-> FALSE],
     [line |-> <<"-", " ", " ", "[", " ", "]", " ", "a">>, task |-> FALSE, title |-> <<>>, done |-> FALSE],
     [line |-> <<"*", " ", "[", " ", "]", " ", "a">>, task |-> FALSE, title |-> <<>>, done |-> FALSE],
     [line |-> <<"-", " ", "[", "y", "]", " ", "a">>, task |-> FALSE, title |-> <<>>, done |-> FALSE],
     [line |-> <<"a", " ", "-", " ", "[", " ", "]", " ", "b">>, task |-> FALSE, title |-> <<>>, done |-> FALSE],
     [line |-> <<>>, task |-> FALSE, title |-> <<>>, done |-> FALSE]}

MdTexts == UNION {[1..n -> MdLines] : n \in 0..MaxMdLines}

extract_call ==
    /\ ~extractCall.called
    /\ \E t \in MdTexts, k \in NoteKeys :
          extractCall' = [called      |-> TRUE,
                          md_body     |-> t,
                          bridge      |-> k[1],
                          rel_md_path |-> RelMd(k[2]),
                          tasks       |-> extract_tasks_from_markdown(
                                              [i \in 1..Len(t) |-> t[i].line],
                                              k[1], RelMd(k[2]))]
    /\ UNCHANGED <<runVars, ledgerVars, toolVars, pureVars, raceVars, reflowCall,
                   resolveCall, mainRun>>

NextExtract == extract_call

SpecExtract == InitUnit /\ [][NextExtract]_vars

InsertAt(t, p, l) == SubSeq(t, 1, p - 1) \o <<l>> \o SubSeq(t, p, Len(t))

\* The tasks of note k once the step's change to its text is made.
NoteTasksAfter(k) == extract_tasks_from_markdown(noteText'[k], k[1], RelMd(k[2]))

\* A step that puts one line into the text of note k at position p: the
\* items above p keep their task, the items at or below p have the same
\* title and mark under the next line number and another local_id.
C23_ShiftStep ==
    \A k \in NoteKeys : \A p \in 1..(Len(noteText[k]) + 1) :
        (/\ Len(noteText'[k]) = Len(noteText[k]) + 1
         /\ noteText'[k] = InsertAt(noteText[k], p, noteText'[k][p])) =>
            \A i \in 1..Len(NoteTasks(k)) :
                LET o == NoteTasks(k)[i]
                IN  IF o.line_no < p
                    THEN \E j \in 1..Len(NoteTasksAfter(k)) : NoteTasksAfter(k)[j] = o
                    ELSE \E j \in 1..Len(NoteTasksAfter(k)) :
                            LET n == NoteTasksAfter(k)[j]
                            IN  /\ n.line_no = o.line_no + 1
                                /\ n.title = o.title
                                /\ n.completed = o.completed
                                /\ n.local_id = LocalId(k[1], RelMd(k[2]), o.line_no + 1)
                                /\ n.local_id # o.local_id

\* The step in which get_known_task_ids returns: every open item of the note whose local_id is not a key
\* of the ledger goes to the provider, whatever rows the ledger holds for
\* the same note and title.
C23_ResendStep ==
    (pc = "note" /\ "get_known_task_ids" \in calls' /\ "ping_fail" \notin calls') =>
        \A i \in 1..Len(NoteTasks(CurrentNote)) :
            LET t == NoteTasks(CurrentNote)[i]
            IN  (~t.completed /\ t.local_id \notin DOMAIN ledger) =>
                    (pc' = "sync" /\ \E j \in 1..Len(batch') : batch'[j] = t)

\* C23: a line put into a note's text at position p moves every checklist
\* item at or below p to the next line number and so to another local_id,
\* the items above p keep theirs; on the next run each open item whose new
\* local_id is not a ledger key is passed to the provider again.
C23_LineShift == [][C23_ShiftStep /\ C23_ResendStep]_vars

\* The item "a", synced from line 1, is about to be recorded again from line 2.
C23_Witness ==
    /\ pc = "record"
    /\ noteText[CurrentNote] = <<LOpenB, LOpenA>>
    /\ \E j \in 1..Len(batch) : batch[j].line_no = 2 /\ batch[j].title = <<"a">>
    /\ LocalId("b1", RelMd("n1"), 1) \in DOMAIN ledger
    /\ ledger[LocalId("b1", RelMd("n1"), 1)].title = <<"a">>
    /\ ledger[LocalId("b1", RelMd("n1"), 1)].status = "created"
    /\ LocalId("b1", RelMd("n1"), 2) \notin DOMAIN ledger


(***************************************************************************)
(* The aggressive cleanup as documented: the rewriting a pass-2 line gets  *)
(* when it is of one of the kinds the docstring of                         *)
(* apply_aggressive_cleanups names, and no rewriting otherwise.            *)
(***************************************************************************)
\* the positions where a run of "#" begins
HashRuns(l) == {q \in 1..Len(l) : l[q] = "#" /\ At(l, q - 1) # "#"}

\* a run of 1 to 6 "#" at q immediately followed by non-space text
TightHeadingAt(l, q) ==
    LET h == RunLen(l, q, {"#"})
    IN  h \in 1..6 /\ q + h <= Len(l) /\ l[q + h] \notin Whitespace

\* a run of 1 to 6 "#" at q with a title after it
HeadingAt(l, q) ==
    LET h == RunLen(l, q, {"#"})
    IN  h \in 1..6 /\ Strip(SubSeq(l, q + h, Len(l))) # <<>>

\* "<hashes> <title>" for the heading that begins at q
NormalizedHeading(l, q) ==
    LET h == RunLen(l, q, {"#"})
    IN  SubSeq(l, q, q + h - 1) \o <<" ">> \o Strip(SubSeq(l, q + h, Len(l)))

documented_line(l) ==
    IF HashRuns(l) = {} THEN <<l>>
    ELSE LET q == Min(HashRuns(l))
         IN  IF q = 1
             THEN IF TightHeadingAt(l, 1) THEN <<NormalizedHeading(l, 1)>> ELSE <<l>>
             ELSE IF Strip(SubSeq(l, 1, q - 1)) # <<>> /\ HeadingAt(l, q)
                  THEN <<rstrip(SubSeq(l, 1, q - 1)), NormalizedHeading(l, q)>>
                  ELSE <<l>>

RECURSIVE documented_cleanup(_)
documented_cleanup(lines) ==
    IF lines = <<>> THEN <<>>
    ELSE documented_line(Head(lines)) \o documented_cleanup(Tail(lines))

\* the pass-2 lines of the call have at most one run of "#" each
OneRunPerLine == \A k \in 1..Len(Final) : Cardinality(HashRuns(Final[k])) <= 1

\* C24: with aggressive set, a pass-2 line that starts with 1 to 6 "#"
\* immediately followed by non-space text gets one space after the run, a
\* line with non-blank text followed by a run of 1 to 6 "#" is split into the
\* trimmed text and the heading "<hashes> <title>", and every other line is
\* unchanged; without the flag no line is changed.
C24_AggressiveCleanup ==
    (reflowCall.called /\ OneRunPerLine) =>
        reflowCall.returned =
            join_strip(IF reflowCall.aggressive THEN documented_cleanup(Final) ELSE Final)

\* A call with the flag set on the two kinds of line the docstring names.
C24_Witness ==
    /\ reflowCall.called
    /\ reflowCall.aggressive
    /\ reflowCall.text = <<RInline, RBlank, RTight>>
    /\ reflowCall.returned = <<RLine, <<"#", "#", " ", "S">>, <<>>, <<"#", "#", " ", "T">>>>

\* A line none of the rules of the second loop applies to: not blank, its
\* first character after the indent a letter, no checkbox marker to
\* normalize and no " - -" inside.
PlainLine(l) ==
    /\ ~blank(l)
    /\ isalpha(l[LeadWs(l) + 1])
    /\ normalize_checkboxes(l) = l
    /\ MidEnds(l) = {}

\* the text the lines stand for ends with one "\n" and no whitespace before it
EndsWithOneNewline(ls) ==
    /\ Len(ls) >= 1
    /\ \/ ls = << <<>> >>
       \/ /\ ls[Len(ls)] # <<>>
          /\ ls[Len(ls)][Len(ls[Len(ls)])] \notin Whitespace \cup {"\r", "\n"}

\* C25: for every text, whatever its line endings, the empty text included,
\* and either flag value, unwrap_and_markdown returns lines free of line
\* breaks; a line that matches no structural rule is emitted as it is with
\* its trailing whitespace trimmed; the result ends with exactly one newline
\* that no whitespace precedes.
C25_ReflowTotal ==
    reflowCall.called =>
        /\ \A k \in 1..Len(reflowCall.text) :
              Range(reflowCall.text[k]) \cap {"\r", "\n"} = {}
        /\ \A k \in 1..Len(reflowCall.returned) :
              Range(reflowCall.returned[k]) \cap {"\r", "\n"} = {}
        /\ EndsWithOneNewline(reflowCall.returned)
        /\ reflowCall.input = <<>> => reflowCall.returned = << <<>> >>
        /\ \A k \in 1..Len(OutAfter) :
              PlainLine(OutAfter[k]) => pass2_line(OutAfter[k]) = <<rstrip(OutAfter[k])>>
        /\ (~reflowCall.aggressive /\ \A k \in 1..Len(OutAfter) :
                                        blank(OutAfter[k]) \/ PlainLine(OutAfter[k]))
              => reflowCall.returned =
                    join_strip([k \in 1..Len(OutAfter) |-> rstrip(OutAfter[k])])

\* A text with "\r\n" and "\r" endings whose plain lines end in spaces.
C25_Witness ==
    /\ reflowCall.called
    /\ reflowCall.aggressive
    /\ reflowCall.input = RHard \o <<"\r", "\n", "\r">> \o RHard \o <<"\r", "\n">>
    /\ reflowCall.text = <<RHard, RBlank, RHard, RBlank>>
    /\ reflowCall.returned = <<RLine, RBlank, RLine>>

(***************************************************************************)
(* main() and process_bridge seen from the loop over cfg.bridges: one      *)
(* action for each way a call of process_bridge ends.  What                *)
(* process_note_for_bridge returns for each note file is drawn from its    *)
(* return values; an exception of it leaves process_bridge and main.       *)
(***************************************************************************)
MaxNotes == 2     \* .note files of a bridge

\* NOTIFY_MODE after the normalisation at import: anything else is "errors"
NotifyModes == {"all", "errors", "none"}

\* the strings process_note_for_bridge returns from an extraction that can
\* happen
NoteStatuses ==
    {"converted", "skipped_up_to_date", "skipped_too_recent", "no_text",
     "tool_missing", "tool_failed"}

StatusLists(n) == UNION {[1..k -> NoteStatuses] : k \in 1..n}

\* the loop over note_files: the counters after the statuses given
RECURSIVE count_statuses(_)
count_statuses(statuses) ==
    IF statuses = <<>> THEN ZeroCounters
    ELSE CountStatus(count_statuses(SubSeq(statuses, 1, Len(statuses) - 1)),
                     statuses[Len(statuses)])

StatsOf(n, c) ==
    [notes_found |-> n, converted |-> c.converted, skipped |-> c.skipped,
     no_text |-> c.no_text, tool_missing |-> c.tool_missing, tool_failed |-> c.tool_failed]

\* send_notifications: the providers provider.send is called on, in order
send_notifications(providers, always_send) ==
    SelectSeq(providers, LAMBDA name : should_send(always_send, name))

\* the branch for no .note files: a status note, no notification
no_notes(mode) == [notified |-> FALSE, always_send |-> FALSE]

\* A variant that pings the base URL whatever happened.
terminal_ok(failed) == ""

\* finally: ping "/fail" on error, the base URL otherwise
terminal_ping(failed) == IF failed THEN "/fail" ELSE ""

\* should_notify_all of the branch for a bridge with notes
should_notify_all(mode, failed) == mode = "all" \/ (mode = "errors" /\ failed)

\* should_notify_all of the branches for a missing path
should_notify_missing(mode) == mode # "none"

main_begin ==
    /\ mainRun.pc = "idle"
    /\ \E mode \in NotifyModes, providers \in NotifyLists, n \in 0..Len(Bridges) :
          mainRun' = [NoMain EXCEPT !.pc = "running", !.mode = mode,
                                    !.providers = providers, !.bridges = n,
                                    !.pings = <<"/start">>]
    /\ UNCHANGED <<runVars, ledgerVars, toolVars, pureVars, raceVars, reflowCall,
                   resolveCall, extractCall>>

\* process_bridge returned: main's loop goes on
BridgeReturned(call) ==
    /\ mainRun.pc = "running"
    /\ mainRun.idx < mainRun.bridges
    /\ mainRun' = [mainRun EXCEPT !.idx = @ + 1,
                                  !.errorish = @ \/ call.returned = "True",
                                  !.returns = Append(@, call.returned),
                                  !.last = call]
    /\ UNCHANGED <<runVars, ledgerVars, toolVars, pureVars, raceVars, reflowCall,
                   resolveCall, extractCall>>

bridge_disabled ==
    BridgeReturned([NoBridgeCall EXCEPT !.branch = "disabled", !.returned = "False"])

bridge_source_missing ==
    \E vault_exists \in BOOLEAN :
        LET always == should_notify_missing(mainRun.mode)
        IN  BridgeReturned([NoBridgeCall EXCEPT
                               !.branch = "source_missing",
                               !.status_note = vault_exists,
                               !.notified = TRUE,
                               !.always_send = always,
                               !.sends = send_notifications(mainRun.providers, always),
                               !.returned = "True"])

bridge_vault_missing ==
    LET always == should_notify_missing(mainRun.mode)
    IN  BridgeReturned([NoBridgeCall EXCEPT
                           !.branch = "vault_missing",
                           !.notified = TRUE,
                           !.always_send = always,
                           !.sends = send_notifications(mainRun.providers, always),
                           !.returned = "True"])

bridge_no_notes ==
    LET n == no_notes(mainRun.mode)
    IN  BridgeReturned([NoBridgeCall EXCEPT
                           !.branch = "no_notes",
                           !.status_note = TRUE,
                           !.notified = n.notified,
                           !.always_send = n.always_send,
                           !.sends = IF n.notified
                                     THEN send_notifications(mainRun.providers, n.always_send)
                                     ELSE <<>>,
                           !.returned = "False"])

bridge_notes ==
    \E statuses \in StatusLists(MaxNotes) :
        LET c == count_statuses(statuses)
            failed == c.tool_missing > 0 \/ c.tool_failed > 0
            always == should_notify_all(mainRun.mode, failed)
        IN  BridgeReturned([NoBridgeCall EXCEPT
                               !.branch = "notes",
                               !.statuses = statuses,
                               !.stats = StatsOf(Len(statuses), c),
                               !.status_note = TRUE,
                               !.notified = TRUE,
                               !.always_send = always,
                               !.sends = send_notifications(mainRun.providers, always),
                               !.returned = IF failed THEN "True" ELSE "False"])

\* process_note_for_bridge raises after some notes of the bridge: the
\* exception leaves process_bridge, main sets errorish, pings "/fail" in its
\* finally clause and raises.
bridge_raises ==
    /\ mainRun.pc = "running"
    /\ mainRun.idx < mainRun.bridges
    /\ \E statuses \in {<<>>} \cup StatusLists(MaxNotes - 1) :
          mainRun' = [mainRun EXCEPT
                         !.pc = "raised",
                         !.idx = @ + 1,
                         !.errorish = TRUE,
                         !.returns = Append(@, "raised"),
                         !.pings = Append(@, terminal_ping(TRUE)),
                         !.last = [NoBridgeCall EXCEPT !.branch = "notes",
                                                       !.statuses = statuses,
                                                       !.returned = "raised"]]
    /\ UNCHANGED <<runVars, ledgerVars, toolVars, pureVars, raceVars, reflowCall,
                   resolveCall, extractCall>>

main_end ==
    /\ mainRun.pc = "running"
    /\ mainRun.idx = mainRun.bridges
    /\ mainRun' = [mainRun EXCEPT !.pc = "returned",
                                  !.pings = Append(@, terminal_ping(mainRun.errorish))]
    /\ UNCHANGED <<runVars, ledgerVars, toolVars, pureVars, raceVars, reflowCall,
                   resolveCall, extractCall>>

NextMain ==
    \/ main_begin
    \/ bridge_disabled
    \/ bridge_source_missing
    \/ bridge_vault_missing
    \/ bridge_no_notes
    \/ bridge_notes
    \/ bridge_raises
    \/ main_end

SpecMain == InitUnit /\ [][NextMain]_vars

\* C26: the "/start" ping comes first, before any bridge is processed; a run
\* that is over has exactly one more ping, issued after the last bridge
\* processed, and a run that is not over has none; the terminal ping is
\* "/fail" iff some process_bridge call returned True or raised, and the
\* base URL otherwise.
C26_HealthcheckProtocol ==
    /\ mainRun.pc = "idle" => (mainRun.pings = <<>> /\ mainRun.returns = <<>>)
    /\ mainRun.pc = "running" => mainRun.pings = <<"/start">>
    /\ mainRun.pc \in {"returned", "raised"} =>
          /\ Len(mainRun.pings) = 2
          /\ mainRun.pings[1] = "/start"
          /\ mainRun.pings[2] \in {"/fail", ""}
          /\ mainRun.pings[2] = "/fail" <=>
                \E k \in 1..Len(mainRun.returns) : mainRun.returns[k] \in {"True", "raised"}
          /\ mainRun.pc = "returned" => Len(mainRun.returns) = mainRun.bridges
    /\ \A k \in 1..Len(mainRun.returns) :
          mainRun.returns[k] = "raised" => (k = Len(mainRun.returns) /\ mainRun.pc = "raised")

\* A run over two bridges, the first with a missing path, ends with "/fail".
C26_Witness ==
    /\ mainRun.pc = "returned"
    /\ mainRun.returns = <<"True", "False">>
    /\ mainRun.last.branch = "notes"
    /\ mainRun.pings = <<"/start", "/fail">>

\* The providers of the run with the name given, and those among the sends
\* of the last process_bridge call.
Configured(names) == SelectSeq(mainRun.providers, LAMBDA name : name \in names)

Sent(names) == SelectSeq(mainRun.last.sends, LAMBDA name : name \in names)

\* tool_missing > 0, tool_failed > 0, or a missing source or vault path
StructuralError ==
    \/ mainRun.last.branch \in {"source_missing", "vault_missing"}
    \/ mainRun.last.stats.tool_missing > 0
    \/ mainRun.last.stats.tool_failed > 0

\* process_bridge was called for an enabled bridge and returned
EnabledBridgeDone ==
    /\ mainRun.last.branch \notin {"none", "disabled"}
    /\ mainRun.last.returned # "raised"

\* the gating of the providers other than menubar
OthersGated ==
    EnabledBridgeDone =>
        /\ Sent({"webhook"}) # <<>> =>
              (mainRun.mode = "all" \/ (mainRun.mode = "errors" /\ StructuralError))
        /\ Sent({"webhook"}) \in {<<>>, Configured({"webhook"})}
        /\ mainRun.mode = "none" => Sent({"webhook"}) = <<>>
        /\ (mainRun.mode = "errors" /\ ~StructuralError) => Sent({"webhook"}) = <<>>

\* C27: every process_bridge call for an enabled bridge sends the payload to
\* each menubar provider whatever NOTIFY_MODE is; another provider is sent
\* it only when the mode is "all", or is "errors" and the run had a
\* structural error; under "none" no other provider is sent anything, and
\* notes without text alone are no error.
C27_NotificationGating ==
    /\ EnabledBridgeDone => Sent({"menubar"}) = Configured({"menubar"})
    /\ OthersGated

\* The same without the calls for a bridge that has no .note files.
C27_GatingWhereNotified ==
    /\ (EnabledBridgeDone /\ mainRun.last.branch # "no_notes") =>
          /\ mainRun.last.notified
          /\ Sent({"menubar"}) = Configured({"menubar"})
          /\ Sent({"webhook"}) =
                (IF mainRun.mode = "all" \/ (mainRun.mode = "errors" /\ StructuralError)
                 THEN Configured({"webhook"}) ELSE <<>>)
    /\ OthersGated

\* a step of the run that handles the note the loop is at (the process is
\* not killed in it)
HandlesNote == pc = "note" /\ runOutcome' # "crashed"

\* the step changes nothing outside the loop's own bookkeeping
NothingTouched ==
    /\ calls' = {}
    /\ ledger' = ledger /\ connOpen' = connOpen
    /\ sent' = sent /\ passes' = passes
    /\ mdFresh' = mdFresh /\ noteText' = noteText
    /\ counters' = counters

C28_DeferStep ==
    /\ (HandlesNote /\ tooRecent[CurrentNote]) =>
          (noteStatus'[CurrentNote] = "skipped_too_recent" /\ NothingTouched)
    /\ (HandlesNote /\ ~tooRecent[CurrentNote]) =>
          /\ noteStatus'[CurrentNote] # noteStatus[CurrentNote] =>
                noteStatus'[CurrentNote] \in
                    {"skipped_up_to_date", "no_text", "tool_missing", "tool_failed"}
          /\ mdFresh[CurrentNote] =>
                (noteStatus'[CurrentNote] = "skipped_up_to_date" /\ calls' = {})
          /\ ~mdFresh[CurrentNote] => "extract_text" \in calls' \/ runOutcome' = "aborted"
    /\ pc = "write" /\ runOutcome' = "running" => noteStatus'[CurrentNote] = "converted"
    /\ \A k \in NoteKeys :
          (~tooRecent[k] /\ tooRecent'[k]) =>
              (pc = "idle" /\ events' = events + 1 /\ ~mdFresh'[k])

\* C28: a note younger than the minimum age is returned as
\* skipped_too_recent and the run invokes no tool, reads and writes no
\* ledger row, calls no provider and writes no note for it; a note gets too
\* recent only by being modified, and a run that reaches a note that is not
\* too recent never skips it as too recent: it skips it as up to date or
\* extracts its text, and a note that is written is returned as converted.
C28_TooRecentDeferred == [][C28_DeferStep]_vars

\* A run has skipped the first note as too recent, with its
\* Markdown file still older than it, and is at the second note.
C28_Witness ==
    /\ pc = "note"
    /\ CurrentNote = <<"b1", "n2">>
    /\ noteStatus[<<"b1", "n1">>] = "skipped_too_recent"
    /\ tooRecent[<<"b1", "n1">>]
    /\ ~mdFresh[<<"b1", "n1">>]
    /\ counters = ZeroCounters
    /\ calls = {}

\* the local_ids of the tasks the provider is, or was just, called with
BatchIds == {batch[i].local_id : i \in 1..Len(batch)}

C29_KeepStep ==
    /\ DOMAIN ledger \subseteq DOMAIN ledger'
    /\ "sync_tasks" \in calls' => (BatchIds \cap DOMAIN ledger = {} /\ batch' = batch)
    /\ \A id \in DOMAIN ledger :
          id \in DOMAIN sent' => (id \in DOMAIN sent /\ sent'[id] = sent[id])

\* C29: no step removes a ledger row, and a provider call carries no task
\* whose local_id has a row, whatever the row's status: the count of the
\* times an id with a row was sent never changes again.  So a failed sync
\* is not retried and another open item on the line of a known id is not
\* synced.
C29_KnownNeverResent == [][C29_KeepStep]_vars

\* A later pass over the note finds nothing to send although its first line
\* is an open item: the row of that line is a failed sync of another item.
C29_Witness ==
    /\ pc = "write"
    /\ batch = <<>>
    /\ CurrentNote = <<"b1", "n1">>
    /\ noteText[CurrentNote] = <<LOpenA>>
    /\ LocalId("b1", "n1.md", 1) \in DOMAIN ledger
    /\ ledger[LocalId("b1", "n1.md", 1)].status = "failed"
    /\ ledger[LocalId("b1", "n1.md", 1)].title = <<"b">>

\* converted + skipped + no_text + tool_missing + tool_failed
CounterSum(c) == c.converted + c.skipped + c.no_text + c.tool_missing + c.tool_failed

\* the positions in note_files of the notes the loop is done with, and those
\* of them that were returned as too recent
NotesDone == {i \in 1..Len(NoteFiles(CurrentBridge)) : i < noteIdx}

RecentDone ==
    {i \in NotesDone :
        noteStatus[<<CurrentBridge, NoteFiles(CurrentBridge)[i]>>] = "skipped_too_recent"}

\* C30: in process_bridge every note the loop is done with has incremented
\* exactly one counter, or none if it was skipped as too recent; when the
\* status note is written the counters sum to at most notes_found, and to
\* notes_found exactly when no note of the run was skipped as too recent.
C30_StatsConsistent ==
    pc \in {"note", "sync", "record", "write", "bridge_end"} =>
        /\ CounterSum(counters) = Cardinality(NotesDone) - Cardinality(RecentDone)
        /\ \A f \in DOMAIN counters : counters[f] >= 0
        /\ pc = "bridge_end" =>
              /\ NotesDone = 1..Len(NoteFiles(CurrentBridge))
              /\ CounterSum(counters) <= Len(NoteFiles(CurrentBridge))
              /\ CounterSum(counters) = Len(NoteFiles(CurrentBridge)) <=> RecentDone = {}

\* The status note is about to be written after a run over two notes, one
\* skipped as too recent and one converted.
C30_Witness ==
    /\ pc = "bridge_end"
    /\ noteStatus[<<"b1", "n1">>] = "skipped_too_recent"
    /\ noteStatus[<<"b1", "n2">>] = "converted"
    /\ counters = [ZeroCounters EXCEPT !.converted = 1]

====
